---------------------------- MODULE Spec2Model ----------------------------
(***************************************************************************)
(* State-machine model of the LXD managed-bridge network engine            *)
(* (lxd/network/network.go, lxd/network/driver_common.go), the cluster     *)
(* notifier it uses, the routed NIC device (lxd/device/nic_routed.go) and  *)
(* the supervised children of the proxy device and of the network          *)
(* (lxd/device/proxy.go, Network.killForkDNS).                             *)
(***************************************************************************)
EXTENDS Bags, FiniteSets, Integers, Sequences, TLC

VARIABLES
    config,       \* n.config: the in-memory configuration of the network
    description,  \* n.description
    db,           \* the cluster store record of the network
    host,         \* kernel, firewall and child-process state of the local member
    extConfigured,\* external interfaces that carry a global unicast address
    mockMode,     \* n.state.OS.MockMode
    th,           \* one call frame per caller of the network engine
    faults,       \* number of collaborator failures injected so far
    ops,          \* number of engine operations started so far
    rt,           \* history of the last completed setup / Update calls
    heartbeat,    \* last heartbeat of every cluster member
    now,          \* the current time
    nt,           \* the cluster notifier under construction / invocation
    nicLock,      \* holder of networkCreateSharedDeviceLock, "" when free
    nic,          \* one call frame per routed NIC device
    nicHost,      \* interfaces and neighbour proxies the routed NICs made
    procs,        \* the process table: the command line running under each pid
    pidfile,      \* the pid each supervisor's pidfile records, 0 when absent
    kl,           \* one call frame per supervisor stopping its child
    signals,      \* every SIGKILL sent, with the command line it hit
    px,           \* the proxy device of an instance: position in Start / Stop
    pxHost,       \* the instance's devices and the host state the proxy changes
    fan,          \* one evaluation of Network.fanAddress: inputs and result
    fdns,         \* forkdns.servers/: the files, forkdnsServersLock, writers, a reader;
                  \* or servers.conf and the last refresh of the server addresses
    val,          \* one evaluation of common.validate, of
                  \* common.bgpValidationRules or of proxy.validateConfig:
                  \* inputs and result
    bgp,          \* the BGP speaker's peers or prefixes and the last bgpSetup call
    rbac          \* the RBAC client: its context, its status loop, the server's view

netVars == <<config, description, db, host, extConfigured, mockMode, th, faults, ops, rt>>
clusterVars == <<heartbeat, now>>
proxyVars == <<px, pxHost>>

unitVars == <<fan, fdns, val, bgp, rbac>>

deviceVars == <<nicLock, nic, nicHost, procs, pidfile, kl, signals, proxyVars, unitVars>>
vars == <<config, description, db, host, extConfigured, mockMode, th, faults, ops, rt,
          heartbeat, now, nt, nicLock, nic, nicHost, procs, pidfile, kl, signals, px, pxHost, fan, fdns,
          val, bgp, rbac>>

-----------------------------------------------------------------------------
(* Bounds of the model.                                                    *)

\* Engine operations (Start, Update, Delete, common.update) in one run.
MaxOps == 3
\* Calls of updateForkdnsServersFile in one run.
MaxRewrites == 3
\* Collaborator failures (kernel, firewall, store, peer) injected in one run.
MaxFaults == 1
\* Largest value of the clock.
MaxTime == 4
\* Calls of bgpSetupPrefixes in one run.
MaxSetups == 2
\* Calls of RefreshForkdnsServerAddresses in one run.
MaxRefreshes == 3
\* Requests of the status loop that reach the RBAC server in one run.
MaxRequests == 4
\* The change identifiers the RBAC server hands out.
MaxChanges == 2

-----------------------------------------------------------------------------
(* Configuration maps: map[string]string.  A missing key reads as "".      *)

NetName == "lxdbr0"

Get(c, k) == IF k \in DOMAIN c THEN c[k] ELSE ""

\* shared.IsTrue
IsTrue(v) == v \in {"true", "1", "yes", "on"}

\* strings.HasPrefix(key, "user.")
IsUserKey(k) == k \in {"user.note"}

Keys == {"bridge.driver", "bridge.mode", "bridge.external_interfaces",
         "ipv4.address", "ipv4.nat", "ipv4.firewall",
         "ipv6.address", "ipv6.nat",
         "fan.underlay_subnet", "user.note"}

\* db.NodeSpecificNetworkConfig: the keys that are never replicated.
NodeSpecificNetworkConfig == {"bridge.external_interfaces"}

CfgNat == [k \in {"ipv4.address", "ipv4.nat"} |->
             IF k = "ipv4.address" THEN "10.0.0.1/24" ELSE "true"]

CfgPlain == [k \in {"ipv4.address", "ipv4.nat", "ipv4.firewall"} |->
               IF k = "ipv4.address" THEN "10.0.0.1/24" ELSE "false"]

CfgFan == [k \in {"bridge.mode", "fan.underlay_subnet"} |->
             IF k = "bridge.mode" THEN "fan" ELSE "192.168.1.0/24"]

CfgOvs == [k \in {"bridge.driver", "ipv4.address", "bridge.external_interfaces"} |->
             CASE k = "bridge.driver" -> "openvswitch"
               [] k = "ipv4.address" -> "10.0.0.1/24"
               [] OTHER -> "eth1"]

CfgUser == [k \in {"ipv4.address", "ipv4.nat", "user.note"} |->
              CASE k = "ipv4.address" -> "10.0.0.1/24"
                [] k = "ipv4.nat" -> "true"
                [] OTHER -> "x"]

CfgV6 == [k \in {"ipv4.address", "ipv6.address", "ipv6.nat"} |->
            CASE k = "ipv4.address" -> "none"
              [] k = "ipv6.address" -> "fd42::1/64"
              [] OTHER -> "true"]

\* A fan network without fan.underlay_subnet.
CfgFanBare == [k \in {"bridge.mode"} |-> "fan"]

Configs == {CfgNat, CfgPlain, CfgFan, CfgFanBare, CfgOvs, CfgUser, CfgV6}

Descriptions == {"", "lab"}

\* api.NetworkPut values a caller may submit.
Puts == [Config : Configs, Description : {""}]
          \cup {[Config |-> CfgNat, Description |-> "lab"]}


-----------------------------------------------------------------------------
(* Addresses.  net.ParseCIDR on the strings the model uses: an IPv4        *)
(* address is its four octets, an IPv6 address is kept symbolic.           *)

ParseErr == [ok |-> FALSE, fam |-> 0, ip |-> <<>>, size |-> 0]

ParseCIDR(s) ==
    CASE s = "10.0.0.1/24"    -> [ok |-> TRUE, fam |-> 4, ip |-> <<10, 0, 0, 1>>, size |-> 24]
      [] s = "192.168.1.0/24" -> [ok |-> TRUE, fam |-> 4, ip |-> <<192, 168, 1, 0>>, size |-> 24]
      [] s = "240.0.0.0/8"    -> [ok |-> TRUE, fam |-> 4, ip |-> <<240, 0, 0, 0>>, size |-> 8]
      [] s = "fd42::1/64"     -> [ok |-> TRUE, fam |-> 6, ip |-> <<"fd42", "1">>, size |-> 64]
      [] s = "192.0.2.9/32"   -> [ok |-> TRUE, fam |-> 4, ip |-> <<192, 0, 2, 9>>, size |-> 32]
      [] s = "2001:db8::9/128" -> [ok |-> TRUE, fam |-> 6, ip |-> <<"2001:db8", "9">>, size |-> 128]
      [] OTHER                -> ParseErr

\* The network of a parsed CIDR (net.IPNet): the address masked by the prefix.
SubnetOf(p) ==
    IF p.fam = 4
    THEN [ip |-> [i \in 1..4 |-> IF 8 * i <= p.size THEN p.ip[i] ELSE 0], size |-> p.size]
    ELSE [ip |-> IF p.size = 128 THEN p.ip ELSE <<p.ip[1]>>, size |-> p.size]

\* net.IPNet.Contains for IPv4 prefixes of whole octets.
Contains(subnet, ip) == \A i \in 1..4 : 8 * i <= subnet.size => ip[i] = subnet.ip[i]

\* The addresses configured on the host's other interfaces, in the order
\* net.Interfaces and iface.Addrs list them.
HostAddrs == <<[dev |-> "eth0", ip |-> <<192, 168, 1, 7>>]>>

\* Network.addressForSubnet: the first address of the host inside the subnet.
RECURSIVE addressForSubnet(_, _)
addressForSubnet(ifaces, subnet) ==
    IF ifaces = <<>> THEN [ok |-> FALSE, ip |-> <<>>, dev |-> ""]
    ELSE IF Contains(subnet, Head(ifaces).ip)
         THEN [ok |-> TRUE, ip |-> Head(ifaces).ip, dev |-> Head(ifaces).dev]
         ELSE addressForSubnet(Tail(ifaces), subnet)

\* An octet arithmetic that always places the third and fourth octets of the
\* host address after the overlay's first octet.
fanBytesThirdFourth(ip, underlaySize, overlay) ==
    <<overlay.ip[1], IF overlay.size = 16 THEN overlay.ip[2] ELSE ip[3], ip[4], 1>>

\* An octet arithmetic that keeps the first octet of the host address.
fanBytesKeepingFirst(ip, underlaySize, overlay) ==
    <<ip[1], ip[3], ip[4], 1>>

\* An octet arithmetic that treats every underlay as a /24: the fourth octet
\* of the host address, then zero.
fanBytesAsUnderlay24(ip, underlaySize, overlay) ==
    <<overlay.ip[1], IF overlay.size = 16 THEN overlay.ip[2] ELSE ip[4],
      IF overlay.size = 16 THEN ip[4] ELSE 0, 1>>

\* The octet arithmetic of Network.fanAddress on the host address ip.
fanBytes(ip, underlaySize, overlay) ==
    LET b0 == overlay.ip[1]
        b1 == IF overlay.size = 16 THEN overlay.ip[2]
              ELSE IF underlaySize = 24 THEN ip[4]
              ELSE IF underlaySize = 16 THEN ip[3]
              ELSE ip[2]
        b2 == IF overlay.size = 16 THEN ip[4]
              ELSE IF underlaySize = 24 THEN 0
              ELSE IF underlaySize = 16 THEN ip[4]
              ELSE ip[3]
    IN  <<b0, b1, b2, 1>>

\* Network.fanAddress: (fan address, underlay device, underlay address, error).
fanAddress(ifaces, underlay, overlay) ==
    LET fail == [ok |-> FALSE, ip |-> <<>>, size |-> 0, dev |-> "", devAddr |-> <<>>]
        a    == addressForSubnet(ifaces, underlay)
    IN  IF underlay.size # 16 /\ underlay.size # 24 THEN fail
        ELSE IF overlay.size # 8 /\ overlay.size # 16 THEN fail
        ELSE IF overlay.size + (32 - underlay.size) + 8 > 32 THEN fail
        ELSE IF ~a.ok THEN fail
        ELSE [ok |-> TRUE, ip |-> fanBytes(a.ip, underlay.size, overlay),
              size |-> overlay.size, dev |-> a.dev, devAddr |-> a.ip]

-----------------------------------------------------------------------------
(* The local member's kernel, firewall and child-process state.            *)

\* The MTU of the underlay device on an ordinary Ethernet.
DevMTU == 1500

\* The other managed network of an ordinary host, and its interfaces.
OtherNetwork == "lxdbr1"

EmptyHost ==
    [bridge   |-> "",        \* driver of the existing bridge interface, "" if absent
     devMtu   |-> DevMTU,    \* what GetDevMTU reads for the underlay device, 0: an error
     others   |-> {OtherNetwork}, \* interfaces of the other managed network
     devs     |-> {},        \* existing interfaces named <network>-*
     ports    |-> {},        \* interfaces attached to the bridge
     mtu      |-> "",        \* MTU of the bridge
     addrs    |-> {},        \* global addresses of the bridge
     rules    |-> EmptyBag,  \* firewall rules tagged with the network
     sysctl   |-> {},        \* sysctls written by the engine
     tunl0    |-> {},        \* routes of the shared tunl0 device
     children |-> EmptyBag,  \* running dnsmasq / forkdns children of the network
     pidfiles |-> <<>>,      \* dnsmasq.pid / forkdns.pid: the child each names
     dir      |-> FALSE]     \* networks/<name>/ exists

\* Network.IsRunning: /sys/class/net/<name> exists.
IsRunning(h) == h.bridge # ""

BagAdd(b, x) == b (+) SetToBag({x})

BagRemoveAll(b, S) == [x \in (BagToSet(b) \ S) |-> b[x]]

\* Firewall rules carry the tag (family, table, network) and a purpose.
Rule(family, table, kind, arg) ==
    [family |-> family, table |-> table, kind |-> kind, arg |-> arg]

\* Firewall.NetworkClear(family, table, name): removes every rule bearing the
\* tag.  firewallConsts.TableAll addresses the default (filter) table.
NetworkClear(h, family, table) ==
    LET t == IF table = "all" THEN "filter" ELSE table
    IN  [h EXCEPT !.rules =
            BagRemoveAll(@, {r \in BagToSet(@) : r.family = family /\ r.table = t})]

\* Firewall.NetworkSetupIPv4DNSOverrides / NetworkSetupIPv6DNSOverrides.
NetworkSetupDNSOverrides(h, family) ==
    [h EXCEPT !.rules = BagAdd(@, Rule(family, "filter", "dns", ""))]

\* Firewall.NetworkSetupIPv4DHCPWorkaround.
NetworkSetupIPv4DHCPWorkaround(h) ==
    [h EXCEPT !.rules = BagAdd(@, Rule(4, "mangle", "dhcpfix", ""))]

\* Firewall.NetworkSetupAllowForwarding(family, name, action).
NetworkSetupAllowForwarding(h, family, action) ==
    [h EXCEPT !.rules = BagAdd(@, Rule(family, "filter", "forward", action))]

\* Firewall.NetworkSetupNAT(family, name, location, args...).
NetworkSetupNAT(h, family, location, args) ==
    [h EXCEPT !.rules = BagAdd(@, Rule(family, "nat", "nat", args))]

\* Firewall.NetworkSetupTunnelNAT(name, location, overlaySubnet).
NetworkSetupTunnelNAT(h, location, overlay) ==
    [h EXCEPT !.rules = BagAdd(@, Rule(4, "nat", "tunnel-nat", overlay))]

\* ip link del dev <bridge> / ovs-vsctl del-br: the bridge goes with its
\* addresses and its ports; the other interfaces stay.
DeleteBridge(h) ==
    [h EXCEPT !.bridge = "", !.ports = {}, !.mtu = "", !.addrs = {}]

\* strings.HasPrefix(iface.Name, fmt.Sprintf("%s-", n.name)) on the names of
\* the interfaces of the other managed network.
HasNamePrefix(iface) == iface \in {"lxdbr0-b", "lxdbr0-b-mtu"}

\* The loop "ip link del dev <iface>" over the interfaces named <name>-*.
DeleteNetworkDevices(h) ==
    [h EXCEPT !.devs = {}, !.ports = @ \ h.devs,
              !.others = {iface \in @ : ~HasNamePrefix(iface)}]

\* AttachInterface(bridge, dev).
AttachInterface(h, dev) == [h EXCEPT !.ports = @ \cup {dev}]

\* DetachInterface(bridge, dev).
DetachInterface(h, dev) == [h EXCEPT !.ports = @ \ {dev}]

\* strings.Split(value, ",") with strings.TrimSpace, for the interface lists
\* the model uses.
SplitList(v) ==
    CASE v = ""          -> <<"">>
      [] v = "eth1"      -> <<"eth1">>
      [] v = "eth1,eth2" -> <<"eth1", "eth2">>
      [] OTHER           -> <<v>>

ExtIfaces == {"eth1", "eth2"}

Range(s) == {s[i] : i \in DOMAIN s}


\* A child process of the network: dnsmasq or forkdns with its arguments.
Child(kind, args) == [kind |-> kind, args |-> args]

\* p.Save(pidfile): the pidfile names the child.
SavePid(h, file, child) ==
    [h EXCEPT !.pidfiles = [f \in DOMAIN @ \cup {file} |-> IF f = file THEN child ELSE @[f]]]

RemovePid(h, file) ==
    [h EXCEPT !.pidfiles = [f \in DOMAIN @ \ {file} |-> @[f]]]

\* subprocess.ImportProcess(pidfile) followed by Process.Stop: the child the
\* pidfile names is killed if it still runs; the pidfile stays on disk.
StopImported(h, file) ==
    IF file \in DOMAIN h.pidfiles /\ BagIn(h.pidfiles[file], h.children)
    THEN [h EXCEPT !.children = @ (-) SetToBag({h.pidfiles[file]})]
    ELSE h

\* dnsmasq.Kill(name, false)
dnsmasqKill(h) == StopImported(h, "dnsmasq.pid")

\* Network.killForkDNS
killForkDNS(h) == StopImported(h, "forkdns.pid")

\* node.ClusterAddress: the member is part of a cluster.
ClusterAddress == "10.1.1.1:8443"

-----------------------------------------------------------------------------
(* Call frames.  A caller runs one engine operation at a time; setup and   *)
(* Stop are sub-procedures that return to the pc recorded in the frame.    *)

Callers == {1, 2}

\* oldConfig == nil
NilConfig == [k \in {"<nil>"} |-> "nil"]

NoPut == [Config |-> NilConfig, Description |-> ""]

IdleFrame ==
    [pc             |-> "idle",
     op             |-> "none",     \* the operation of the current / last call
     ret            |-> "none",     \* its result: "ok" or "err"
     newNetwork     |-> NoPut,      \* Update's argument (after fillAuto)
     notify         |-> FALSE,      \* Update's notify / clientType = notifier
     withDatabase   |-> FALSE,      \* Delete's argument
     targetNode     |-> "",         \* common.update's targetNode
     oldConfig      |-> NilConfig,  \* Update's backup of n.config
     oldDescription |-> "",
     undoChanges    |-> FALSE,
     changedConfig  |-> {},
     userOnly       |-> TRUE,
     err            |-> FALSE,      \* Update's pending return value
     setupOld       |-> NilConfig,  \* setup's oldConfig argument
     setupRet       |-> "idle",     \* where setup returns to
     setupErr       |-> FALSE,      \* setup's return value
     stopRet        |-> "idle",     \* where Stop returns to
     stopErr        |-> FALSE,      \* Stop's return value
     mtu            |-> "",         \* setup's local mtu
     dnsmasqCmd     |-> {},         \* setup's local dnsmasqCmd
     dnsClustered   |-> FALSE,      \* setup's local dnsClustered
     fanAddr        |-> <<>>,       \* setup's local dnsClusteredAddress
     \* what the call did, for the properties
     pre            |-> [config |-> NilConfig, description |-> "", host |-> EmptyHost,
                         db |-> [exists |-> FALSE, config |-> NilConfig, description |-> ""],
                         stored |-> FALSE, settled |-> FALSE],
     notifierBuilt  |-> FALSE,      \* NewNotifier returned a notifier
     acked          |-> {},         \* peers on which the hook returned nil
     sent           |-> {},         \* the config payloads handed to UpdateNetwork
     wroteNew       |-> FALSE,      \* the store was written with the new values
     wroteStore     |-> FALSE,      \* the store was written at all
     ranSetup       |-> FALSE,      \* the forward setup(oldConfig) was entered
     flushed        |-> FALSE,      \* a setup of this call removed an address the bridge had
     cleared        |-> {},         \* family and table of the NetworkClear calls of the setup run
     uncleared      |-> {}]         \* family and table of the setup calls made without one before

Members == {"m1", "m2", "m3"}
Local == "m1"
Peers == Members \ {Local}

\* The store record of the network.
Record(c, d) == [exists |-> TRUE, config |-> c, description |-> d]

\* rt.phase: 1 after setup(A) on a fresh host, 2 after a following successful
\* Update(B), 3 after a following successful Update(A); 0 otherwise.
NoHistory == [phase |-> 0, A |-> NilConfig, snap |-> EmptyHost]

NoRecord == [exists |-> FALSE, config |-> NilConfig, description |-> ""]

InitNet ==
    /\ config \in Configs
    /\ description = ""
    /\ db = Record(config, description)
    /\ host = EmptyHost
    /\ extConfigured \in {{}, {"eth1"}}
    /\ extConfigured # {} => config \in {CfgNat, CfgOvs}
    /\ mockMode \in BOOLEAN
    /\ mockMode => config = CfgNat /\ extConfigured = {}
    /\ th = [t \in Callers |-> IdleFrame]
    /\ faults = 0
    /\ ops = 0
    /\ rt = NoHistory


-----------------------------------------------------------------------------
(* Network.setup(oldConfig), network.go:173-1054, in phases.  Each phase   *)
(* is one step; a failure of a collaborator (a command, a sysctl, the      *)
(* firewall) may be injected where the code returns the error.             *)

AddrKey(fam) == IF fam = 4 THEN "ipv4.address" ELSE "ipv6.address"
NatKey(fam) == IF fam = 4 THEN "ipv4.nat" ELSE "ipv6.nat"
NatAddressKey(fam) == IF fam = 4 THEN "ipv4.nat.address" ELSE "ipv6.nat.address"
NatOrderKey(fam) == IF fam = 4 THEN "ipv4.nat.order" ELSE "ipv6.nat.order"
FirewallKey(fam) == IF fam = 4 THEN "ipv4.firewall" ELSE "ipv6.firewall"
RoutingKey(fam) == IF fam = 4 THEN "ipv4.routing" ELSE "ipv6.routing"
DhcpKey(fam) == IF fam = 4 THEN "ipv4.dhcp" ELSE "ipv6.dhcp"

\* !shared.StringInSlice(n.config["ipvN.address"], []string{"", "none"})
HasAddress(c, fam) == Get(c, AddrKey(fam)) \notin {"", "none"}

\* n.config["ipvN.firewall"] == "" || shared.IsTrue(n.config["ipvN.firewall"])
FirewallOn(c, fam) == Get(c, FirewallKey(fam)) = "" \/ IsTrue(Get(c, FirewallKey(fam)))

\* Network.HasDHCPv4 / Network.HasDHCPv6
HasDHCP(c, fam) == Get(c, DhcpKey(fam)) = "" \/ IsTrue(Get(c, DhcpKey(fam)))

IsFan(c) == Get(c, "bridge.mode") = "fan"

IsTunnelKey(k) == k \in {"tunnel.t1.protocol", "tunnel.t1.local", "tunnel.t1.remote"}

\* Network.getTunnels
getTunnels(c) == IF \E k \in DOMAIN c : IsTunnelKey(k) THEN {"t1"} ELSE {}

\* fmt.Sprintf("%d", n) on the MTUs the model uses.
MtuString(n) ==
    CASE n = 1450 -> "1450" [] n = 1480 -> "1480" [] n = 1500 -> "1500"
      [] n = 1400 -> "1400" [] n = 8950 -> "8950" [] n = 8980 -> "8980"
      [] n = 9000 -> "9000" [] OTHER -> "other"

CallSetup(f, old, retpc) ==
    [f EXCEPT !.pc = "s_bridge", !.setupOld = old, !.setupRet = retpc, !.setupErr = FALSE,
              !.mtu = "", !.dnsmasqCmd = {}, !.dnsClustered = FALSE, !.fanAddr = <<>>,
              !.cleared = {}, !.uncleared = {}]

SetupReturn(f, err) == [f EXCEPT !.pc = f.setupRet, !.setupErr = err]

\* The firewall rules a phase added: those of which h holds more copies.
AddedRules(h) == {r \in BagToSet(h.rules) : CopiesIn(r, h.rules) > CopiesIn(r, host.rules)}

\* The frame after a setup phase: an address was flushed if the phase left the
\* bridge without an address it had when the call began, and a firewall
\* setup call was made without a clear if the table of a rule the phase added
\* was not cleared earlier in the run.
Observe(f, h) ==
    [f EXCEPT !.flushed = @ \/ ~(f.pre.host.addrs \subseteq h.addrs),
              !.uncleared = @ \cup ({<<r.family, r.table>> : r \in AddedRules(h)} \ f.cleared)]

NetFrame ==
    <<config, description, db, extConfigured, mockMode, ops, rt, heartbeat, now, nt, deviceVars>>

\* A collaborator fails: setup returns the error, the host as the phase left it.
SetupFault(t, h) ==
    /\ faults < MaxFaults
    /\ faults' = faults + 1
    /\ host' = h
    /\ th' = [th EXCEPT ![t] = SetupReturn(Observe(@, h), TRUE)]

SetupGoto(t, h, f, pc) ==
    /\ faults' = faults
    /\ host' = h
    /\ th' = [th EXCEPT ![t] = [Observe(f, h) EXCEPT !.pc = pc]]

\* network.go:173-205: mock mode, the network directory, the bridge interface.
SetupBridge(t) ==
    /\ th[t].pc = "s_bridge"
    /\ \/ /\ mockMode
          /\ faults' = faults /\ host' = host
          /\ th' = [th EXCEPT ![t] = SetupReturn(@, FALSE)]
       \/ /\ ~mockMode
          /\ ~host.dir \/ ~IsRunning(host)
          /\ SetupFault(t, host)
       \/ /\ ~mockMode
          /\ LET drv == IF Get(config, "bridge.driver") = "openvswitch"
                        THEN "openvswitch" ELSE "native"
                 h1  == [host EXCEPT !.dir = TRUE,
                                     !.bridge = IF IsRunning(host) THEN @ ELSE drv]
             IN  SetupGoto(t, h1, th[t], "s_link")
    /\ UNCHANGED NetFrame

\* network.go:243-255: the MTU the bridge is given before the fan is known.
ConfiguredMtu(c) ==
    IF Get(c, "bridge.mtu") # "" THEN Get(c, "bridge.mtu")
    ELSE IF getTunnels(c) # {} THEN "1400"
    ELSE IF IsFan(c) THEN (IF Get(c, "fan.type") = "ipip" THEN "1480" ELSE "1450")
    ELSE ""

\* network.go:207-290: IPv6 sysctls, removal of the network's old tunnel and
\* dummy interfaces, MTU, hardware address, link up.
SetupLink(t) ==
    /\ th[t].pc = "s_link"
    /\ \/ SetupFault(t, host)
       \/ LET mtu == ConfiguredMtu(config)
              h1  == IF HasAddress(config, 6)
                     THEN [host EXCEPT !.sysctl = @ \cup {"ipv6.autoconf=0", "ipv6.accept_dad=0"}]
                     ELSE host
              h2  == DeleteNetworkDevices(h1)
              h3  == IF mtu # "" /\ Get(config, "bridge.driver") # "openvswitch"
                     THEN AttachInterface([h2 EXCEPT !.devs = @ \cup {"lxdbr0-mtu"}], "lxdbr0-mtu")
                     ELSE h2
              m   == IF mtu = "" THEN "1500" ELSE mtu
              h4  == [h3 EXCEPT !.mtu = m]
          IN  SetupGoto(t, h4, [th[t] EXCEPT !.mtu = m], "s_ext")
    /\ UNCHANGED NetFrame

\* network.go:294-321: the loop over bridge.external_interfaces.
RECURSIVE AttachExternal(_, _, _)
AttachExternal(h, entries, configured) ==
    IF entries = <<>> THEN [host |-> h, err |-> FALSE]
    ELSE LET e == Head(entries)
         IN  IF e \notin ExtIfaces THEN AttachExternal(h, Tail(entries), configured)
             ELSE IF e \in configured THEN [host |-> h, err |-> TRUE]
             ELSE AttachExternal(AttachInterface(h, e), Tail(entries), configured)

\* network.go:292-322: only unconfigured interfaces can be bridged.
SetupExternal(t) ==
    /\ th[t].pc = "s_ext"
    /\ LET v == Get(config, "bridge.external_interfaces")
           r == IF v # "" THEN AttachExternal(host, SplitList(v), extConfigured)
                ELSE [host |-> host, err |-> FALSE]
       IN  IF r.err
           THEN /\ faults' = faults /\ host' = r.host
                /\ th' = [th EXCEPT ![t] = SetupReturn(@, TRUE)]
           ELSE SetupGoto(t, r.host, th[t], "s_clear4")
    /\ UNCHANGED NetFrame

\* network.go:324-342 and 503-516: the tables NetworkClear is called with.
ClearedTables(c, old, fam) ==
    (IF FirewallOn(c, fam) \/ (old # NilConfig /\ FirewallOn(old, fam))
     THEN (IF fam = 4 THEN {"all", "mangle"} ELSE {"all"}) ELSE {})
    \cup (IF IsTrue(Get(c, NatKey(fam))) \/ (old # NilConfig /\ IsTrue(Get(old, NatKey(fam))))
          THEN {"nat"} ELSE {})

\* network.go:324-342 and 503-516: which firewall tables of the family are cleared.
ClearRules(h, c, old, fam) ==
    LET tables == ClearedTables(c, old, fam)
        h1 == IF "all" \in tables THEN NetworkClear(h, fam, "all") ELSE h
        h2 == IF "mangle" \in tables THEN NetworkClear(h1, fam, "mangle") ELSE h1
    IN  IF "nat" \in tables THEN NetworkClear(h2, fam, "nat") ELSE h2

\* The frame after the clear phase of a family.
Cleared(f, c, fam) ==
    [f EXCEPT !.cleared = @ \cup {<<fam, IF tb = "all" THEN "filter" ELSE tb>> :
                                      tb \in ClearedTables(c, f.setupOld, fam)}]

\* ip -N addr flush dev <bridge> scope global
FlushAddrs(h, fam) == [h EXCEPT !.addrs = {a \in @ : a.fam # fam}]

\* network.go:324-360: clear the IPv4 rules, flush the IPv4 addresses and routes.
SetupClear4(t) ==
    /\ th[t].pc = "s_clear4"
    /\ \/ SetupFault(t, host)
       \/ SetupGoto(t, FlushAddrs(ClearRules(host, config, th[t].setupOld, 4), 4),
                    Cleared(th[t], config, 4), "s_fw4")
    /\ UNCHANGED NetFrame

\* network.go:364-372: DHCP/DNS overrides and the DHCP client workaround.
FirewallOverrides4(h, c) ==
    LET h1 == IF HasDHCP(c, 4) /\ FirewallOn(c, 4) THEN NetworkSetupDNSOverrides(h, 4) ELSE h
    IN  IF FirewallOn(c, 4) THEN NetworkSetupIPv4DHCPWorkaround(h1) ELSE h1

\* network.go:374-394 and 585-627: forwarding sysctl and accept / reject rule.
Forwarding(h, c, fam) ==
    IF (fam = 4 /\ IsFan(c)) \/ Get(c, RoutingKey(fam)) = "" \/ IsTrue(Get(c, RoutingKey(fam)))
    THEN LET h1 == [h EXCEPT !.sysctl = @ \cup {IF fam = 4 THEN "ipv4.ip_forward=1"
                                                ELSE "ipv6.forwarding=1"}]
         IN  IF FirewallOn(c, fam) THEN NetworkSetupAllowForwarding(h1, fam, "accept") ELSE h1
    ELSE IF FirewallOn(c, fam) THEN NetworkSetupAllowForwarding(h, fam, "reject") ELSE h

\* network.go:362-395: configure the IPv4 firewall (includes fan).
SetupFirewall4(t) ==
    /\ th[t].pc = "s_fw4"
    /\ \/ /\ IsFan(config) \/ HasAddress(config, 4)
          /\ FirewallOn(config, 4) \/ IsFan(config) \/ Get(config, "ipv4.routing") = ""
                \/ IsTrue(Get(config, "ipv4.routing"))
          /\ SetupFault(t, host)
       \/ LET h1 == IF IsFan(config) \/ HasAddress(config, 4)
                    THEN Forwarding(FirewallOverrides4(host, config), config, 4)
                    ELSE host
          IN  SetupGoto(t, h1, th[t], "s_ip4")
    /\ UNCHANGED NetFrame

\* network.go:464-483 and 635-653: masquerade, or SNAT to ipvN.nat.address.
NatRule(h, c, fam, subnet) ==
    IF IsTrue(Get(c, NatKey(fam)))
    THEN LET target == IF Get(c, NatAddressKey(fam)) # "" THEN Get(c, NatAddressKey(fam))
                       ELSE "MASQUERADE"
             loc    == IF Get(c, NatOrderKey(fam)) = "after" THEN "append" ELSE "prepend"
         IN  NetworkSetupNAT(h, fam, loc, [subnet |-> subnet, target |-> target])
    ELSE h

\* The address n places after ip, carrying between octets.
AddToIP(ip, n) ==
    LET v4 == ip[4] + n
        v3 == ip[3] + (v4 \div 256)
        v2 == ip[2] + (v3 \div 256)
        v1 == ip[1] + (v2 \div 256)
    IN  <<v1 % 256, v2 % 256, v3 % 256, v4 % 256>>

\* GetIP(subnet, host): the host-th address of the subnet, counted from its
\* end when host is negative.  An IPv6 address is its prefix and its host
\* number, a negative number counting from the end of the subnet.
GetIP(subnet, n) ==
    IF Len(subnet.ip) = 4
    THEN AddToIP(subnet.ip, IF n < 0 THEN 2 ^ (32 - subnet.size) + n ELSE n)
    ELSE <<subnet.ip[1], n>>

\* strings.Split(value, ","), strings.TrimSpace and
\* strings.Replace(dhcpRange, "-", ",", -1) on the values of ipvN.dhcp.ranges
\* the model uses: the start and the end of every range, in order.
RangeList(v) ==
    CASE v = "10.0.0.10-10.0.0.20" ->
             <<[start |-> <<10, 0, 0, 10>>, end |-> <<10, 0, 0, 20>>]>>
      [] v = "10.0.0.10-10.0.0.20, 10.0.0.30-10.0.0.40" ->
             <<[start |-> <<10, 0, 0, 10>>, end |-> <<10, 0, 0, 20>>],
               [start |-> <<10, 0, 0, 30>>, end |-> <<10, 0, 0, 40>>]>>
      [] v = "fd42::10-fd42::20" ->
             <<[start |-> <<"fd42", 16>>, end |-> <<"fd42", 32>>]>>
      [] OTHER -> <<>>

\* One "--dhcp-range" argument of dnsmasq: family, start, end, prefix size,
\* lease lifetime and mode.
DhcpRange(fam, start, end, size, expiry, mode) ==
    [opt |-> "dhcp-range", val |-> <<fam, start, end, size, expiry, mode>>]

Expiry(c, fam) ==
    LET k == IF fam = 4 THEN "ipv4.dhcp.expiry" ELSE "ipv6.dhcp.expiry"
    IN  IF Get(c, k) # "" THEN Get(c, k) ELSE "1h"

\* IPv4 ranges that add the default range to the configured ones.
DhcpRanges4WithDefault(c, subnet) ==
    IF ~HasDHCP(c, 4) THEN {}
    ELSE {DhcpRange(4, r.start, r.end, 0, Expiry(c, 4), "range") :
              r \in Range(RangeList(Get(c, "ipv4.dhcp.ranges")))}
         \cup {DhcpRange(4, GetIP(subnet, 2), GetIP(subnet, -2), 0, Expiry(c, 4), "range")}

\* network.go:434-456: the DHCP ranges of IPv4.
DhcpRanges4(c, subnet) ==
    IF ~HasDHCP(c, 4) THEN {}
    ELSE IF Get(c, "ipv4.dhcp.ranges") # ""
    THEN {DhcpRange(4, r.start, r.end, 0, Expiry(c, 4), "range") :
              r \in Range(RangeList(Get(c, "ipv4.dhcp.ranges")))}
    ELSE {DhcpRange(4, GetIP(subnet, 2), GetIP(subnet, -2), 0, Expiry(c, 4), "range")}

\* network.go:552-583: the DHCP ranges of IPv6.
DhcpRanges6(c, subnet) ==
    IF ~HasDHCP(c, 6) THEN {DhcpRange(6, <<>>, <<>>, 0, "", "ra-only")}
    ELSE IF ~IsTrue(Get(c, "ipv6.dhcp.stateful"))
    THEN {DhcpRange(6, <<>>, <<>>, 0, "", "ra-stateless")}
    ELSE IF Get(c, "ipv6.dhcp.ranges") # ""
    THEN {DhcpRange(6, r.start, r.end, subnet.size, Expiry(c, 6), "range") :
              r \in Range(RangeList(Get(c, "ipv6.dhcp.ranges")))}
    ELSE {DhcpRange(6, GetIP(subnet, 2), GetIP(subnet, -1), subnet.size, Expiry(c, 6), "range")}

\* network.go:397-501: dnsmasq version, then address, NAT and routes of IPv4.
SetupIPv4(t) ==
    /\ th[t].pc = "s_ip4"
    /\ \/ SetupFault(t, host)
       \/ LET p == ParseCIDR(Get(config, "ipv4.address"))
          IN  IF ~HasAddress(config, 4) THEN SetupGoto(t, host, th[t], "s_clear6")
              ELSE IF ~p.ok
              THEN /\ faults' = faults /\ host' = host
                   /\ th' = [th EXCEPT ![t] = SetupReturn(@, TRUE)]
              ELSE LET h1 == [host EXCEPT !.addrs = @ \cup {[fam |-> 4, ip |-> p.ip, size |-> p.size]}]
                       h2 == NatRule(h1, config, 4, SubnetOf(p))
                       f  == [th[t] EXCEPT !.dnsmasqCmd =
                                 @ \cup {[opt |-> "listen-address", val |-> p.ip]}
                                   \cup DhcpRanges4(config, SubnetOf(p))]
                   IN  SetupGoto(t, h2, f, "s_clear6")
    /\ UNCHANGED NetFrame

\* network.go:503-534: clear the IPv6 rules, flush the IPv6 addresses and routes.
SetupClear6(t) ==
    /\ th[t].pc = "s_clear6"
    /\ \/ SetupFault(t, host)
       \/ SetupGoto(t, FlushAddrs(ClearRules(host, config, th[t].setupOld, 6), 6),
                    Cleared(th[t], config, 6), "s_ip6")
    /\ UNCHANGED NetFrame

\* network.go:536-671: sysctls, firewall, address, NAT and routes of IPv6.
SetupIPv6(t) ==
    /\ th[t].pc = "s_ip6"
    /\ \/ /\ HasAddress(config, 6)
          /\ SetupFault(t, host)
       \/ LET p == ParseCIDR(Get(config, "ipv6.address"))
          IN  IF ~HasAddress(config, 6) THEN SetupGoto(t, host, th[t], "s_fan")
              ELSE IF ~p.ok
              THEN /\ faults' = faults
                   /\ host' = [host EXCEPT !.sysctl = @ \cup {"ipv6.disable_ipv6=0"}]
                   /\ th' = [th EXCEPT ![t] = SetupReturn(@, TRUE)]
              ELSE LET h0 == [host EXCEPT !.sysctl = @ \cup {"ipv6.disable_ipv6=0"}]
                       h1 == IF HasDHCP(config, 6) /\ FirewallOn(config, 6)
                             THEN NetworkSetupDNSOverrides(h0, 6) ELSE h0
                       h2 == Forwarding(h1, config, 6)
                       h3 == [h2 EXCEPT !.addrs = @ \cup {[fam |-> 6, ip |-> p.ip, size |-> p.size]}]
                       h4 == NatRule(h3, config, 6, SubnetOf(p))
                       f  == [th[t] EXCEPT !.dnsmasqCmd = @ \cup {[opt |-> "listen-address", val |-> p.ip],
                                                                   [opt |-> "enable-ra", val |-> <<>>]}
                                                              \cup DhcpRanges6(config, SubnetOf(p))]
                   IN  SetupGoto(t, h4, f, "s_fan")
    /\ UNCHANGED NetFrame


\* network.go:673-835: the fan: addresses, MTU, tunnel device, tunnel NAT, and
\* whether DNS runs in cluster mode.
SetupFan(t) ==
    /\ th[t].pc = "s_fan"
    /\ LET under   == ParseCIDR(Get(config, "fan.underlay_subnet"))
           ovText  == IF Get(config, "fan.overlay_subnet") = "" THEN "240.0.0.0/8"
                      ELSE Get(config, "fan.overlay_subnet")
           over    == ParseCIDR(ovText)
           fa      == fanAddress(HostAddrs, SubnetOf(under), SubnetOf(over))
           ipip    == Get(config, "fan.type") = "ipip"
           size    == IF ipip THEN 24 ELSE fa.size
           hostSub == SubnetOf([fam |-> 4, ip |-> fa.ip, size |-> 24])
           known   == host.devMtu # 0
           fanMtu  == MtuString(IF ipip THEN host.devMtu - 20 ELSE host.devMtu - 50)
           h1      == IF known /\ fanMtu # th[t].mtu THEN [host EXCEPT !.mtu = fanMtu] ELSE host
           h2      == [h1 EXCEPT !.addrs = @ \cup {[fam |-> 4, ip |-> fa.ip, size |-> size]}]
           h3      == IF ipip
                      THEN [h2 EXCEPT !.tunl0 = {[dst |-> ovText, src |-> fa.ip]}]
                      ELSE AttachInterface([h2 EXCEPT !.devs = @ \cup {"lxdbr0-fan"}], "lxdbr0-fan")
           h4      == IF Get(config, "ipv4.nat") = "" \/ IsTrue(Get(config, "ipv4.nat"))
                      THEN NetworkSetupTunnelNAT(h3,
                               IF Get(config, "ipv4.nat.order") = "after" THEN "append" ELSE "prepend",
                               SubnetOf(over))
                      ELSE h3
           f       == [th[t] EXCEPT !.mtu = IF known /\ fanMtu # @ THEN fanMtu ELSE @,
                                    !.dnsmasqCmd = @ \cup {[opt |-> "listen-address", val |-> fa.ip],
                                                           DhcpRange(4, GetIP(hostSub, 2), GetIP(hostSub, -2),
                                                                     0, Expiry(config, 4), "range")},
                                    !.dnsClustered = ClusterAddress # "",
                                    !.fanAddr = fa.ip]
       IN  IF ~IsFan(config) THEN SetupGoto(t, host, th[t], "s_tunnels")
           ELSE IF ~under.ok
           THEN \* network.go:683-685: setup returns nil here
                /\ faults' = faults /\ host' = host
                /\ th' = [th EXCEPT ![t] = SetupReturn(@, FALSE)]
           ELSE IF ~over.ok \/ ~fa.ok
           THEN /\ faults' = faults /\ host' = host
                /\ th' = [th EXCEPT ![t] = SetupReturn(@, TRUE)]
           ELSE \/ SetupFault(t, host)
                \/ SetupGoto(t, h4, f, "s_tunnels")
    /\ UNCHANGED NetFrame

\* network.go:837-926: one tunnel interface per tunnel.<name>.* group.
SetupTunnels(t) ==
    /\ th[t].pc = "s_tunnels"
    /\ LET devs == {"lxdbr0-" \o n : n \in getTunnels(config)}
           h1   == [host EXCEPT !.devs = @ \cup devs, !.ports = @ \cup devs]
       IN  SetupGoto(t, h1, th[t], "s_dns")
    /\ UNCHANGED NetFrame

\* network.go:940-942: dnsmasq is wanted.
WantsDnsmasq(c) == IsFan(c) \/ HasAddress(c, 4) \/ HasAddress(c, 6)

\* network.go:928-1053: kill the old dnsmasq and forkdns, start the new ones.
SetupDnsmasq(t) ==
    /\ th[t].pc = "s_dns"
    /\ \/ SetupFault(t, host)
       \/ LET h1   == killForkDNS(dnsmasqKill(host))
              dm   == Child("dnsmasq", [cmd |-> th[t].dnsmasqCmd, clustered |-> th[t].dnsClustered])
              fd   == Child("forkdns", [listen |-> th[t].fanAddr])
              h2   == SavePid([h1 EXCEPT !.children = BagAdd(@, dm)], "dnsmasq.pid", dm)
              h3   == IF th[t].dnsClustered
                      THEN SavePid([h2 EXCEPT !.children = BagAdd(@, fd)], "forkdns.pid", fd)
                      ELSE h2
              h4   == IF WantsDnsmasq(config) THEN h3 ELSE RemovePid(h1, "dnsmasq.pid")
          IN  /\ faults' = faults
              /\ host' = h4
              /\ th' = [th EXCEPT ![t] = SetupReturn(Observe(@, h4), FALSE)]
    /\ UNCHANGED NetFrame

-----------------------------------------------------------------------------
(* Network.Stop, network.go:1057-1137.                                     *)

CallStop(f, retpc) == [f EXCEPT !.pc = "stop_bridge", !.stopRet = retpc, !.stopErr = FALSE]

StopReturn(f, err) == [f EXCEPT !.pc = f.stopRet, !.stopErr = err]

\* network.go:1058-1073: refuse a stopped network, destroy the bridge interface.
StopBridge(t) ==
    /\ th[t].pc = "stop_bridge"
    /\ \/ /\ ~IsRunning(host)
          /\ faults' = faults /\ host' = host
          /\ th' = [th EXCEPT ![t] = StopReturn(@, TRUE)]
       \/ /\ IsRunning(host)
          /\ faults < MaxFaults
          /\ faults' = faults + 1 /\ host' = host
          /\ th' = [th EXCEPT ![t] = StopReturn(@, TRUE)]
       \/ /\ IsRunning(host)
          /\ faults' = faults
          /\ host' = DeleteBridge(host)
          /\ th' = [th EXCEPT ![t].pc = "stop_clean"]
    /\ UNCHANGED NetFrame

\* network.go:1075-1103: the firewall tables Stop clears.
StopClear(h, c, fam) ==
    LET h1 == IF FirewallOn(c, fam)
              THEN IF fam = 4 THEN NetworkClear(NetworkClear(h, 4, "all"), 4, "mangle")
                   ELSE NetworkClear(h, 6, "all")
              ELSE h
    IN  IF IsTrue(Get(c, NatKey(fam))) THEN NetworkClear(h1, fam, "nat") ELSE h1

\* network.go:1075-1136: firewall cleanup, children, tunnel devices.
StopCleanup(t) ==
    /\ th[t].pc = "stop_clean"
    /\ \/ /\ faults < MaxFaults
          /\ faults' = faults + 1 /\ host' = host
          /\ th' = [th EXCEPT ![t] = StopReturn(@, TRUE)]
       \/ /\ faults' = faults
          /\ host' = DeleteNetworkDevices(killForkDNS(dnsmasqKill(
                         StopClear(StopClear(host, config, 4), config, 6))))
          /\ th' = [th EXCEPT ![t] = StopReturn(@, FALSE)]
    /\ UNCHANGED NetFrame


-----------------------------------------------------------------------------
(* The cluster notifier, cluster.NewNotifier(state, cert, policy).         *)

\* A member is offline when its last heartbeat is this old.
OfflineThreshold == 2

Alive(hb, clock, m) == clock - hb[m] < OfflineThreshold

\* A notifier that never refuses: policy all treated as policy alive.
NewNotifierNeverRefusing(hb, clock, policy) ==
    [ok |-> TRUE, err |-> <<>>, peers |-> {m \in Peers : Alive(hb, clock, m)}]

\* A notifier that does not look at the heartbeats under policy alive.
NewNotifierToEveryPeer(hb, clock, policy) ==
    IF policy = "all" /\ \E m \in Peers : ~Alive(hb, clock, m)
    THEN [ok |-> FALSE, peers |-> {},
          err |-> <<"peer node ", CHOOSE m \in Peers : ~Alive(hb, clock, m), " is down">>]
    ELSE [ok |-> TRUE, err |-> <<>>, peers |-> Peers]

\* The notifier NewNotifier builds: the peers its hook will be run against,
\* or the refusal of policy "all" when some peer is down.
NewNotifier(hb, clock, policy) ==
    LET down == {m \in Peers : ~Alive(hb, clock, m)}
    IN  IF policy = "all" /\ down # {}
        THEN [ok |-> FALSE, peers |-> {},
              err |-> <<"peer node ", CHOOSE m \in down : TRUE, " is down">>]
        ELSE [ok |-> TRUE, err |-> <<>>, peers |-> Peers \ down]

-----------------------------------------------------------------------------
(* Entry and return of the engine operations.                              *)

\* The bridge is in the state a successful setup on a fresh host produced for
\* the current config.
Settled == rt.phase = 1 /\ rt.A = config /\ rt.snap = host

BeginCall(op) ==
    [IdleFrame EXCEPT !.op = op,
                      !.pre = [config |-> config, description |-> description,
                               host |-> host, db |-> db,
                               stored |-> db = Record(config, description),
                               settled |-> Settled]]

CanCall(t) == th[t].pc = "idle" /\ ops < MaxOps /\ db.exists

RtNext(f, ok) ==
    IF ~ok \/ mockMode THEN NoHistory
    ELSE IF f.op = "Start" /\ f.pre.host = EmptyHost
    THEN [phase |-> 1, A |-> config, snap |-> host]
    ELSE IF f.op = "Update" /\ rt.phase = 1 /\ f.pre.settled /\ f.newNetwork.Config # rt.A
    THEN [rt EXCEPT !.phase = 2]
    ELSE IF f.op = "Update" /\ rt.phase = 2 /\ f.newNetwork.Config = rt.A /\ config = rt.A
    THEN [rt EXCEPT !.phase = 3]
    ELSE IF rt.phase = 1 /\ f.pre.settled /\ Settled
    THEN rt
    ELSE NoHistory

Return(t, ok) ==
    /\ th' = [th EXCEPT ![t].pc = "idle", ![t].ret = IF ok THEN "ok" ELSE "err"]
    /\ rt' = RtNext(th[t], ok)

\* network.go:168-170: Start is setup(nil).
Start(t) ==
    /\ CanCall(t)
    /\ ops' = ops + 1
    /\ th' = [th EXCEPT ![t] = CallSetup(BeginCall("Start"), NilConfig, "start_ret")]
    /\ UNCHANGED <<config, description, db, host, extConfigured, mockMode, faults, rt,
                   heartbeat, now, nt, deviceVars>>

StartReturn(t) ==
    /\ th[t].pc = "start_ret"
    /\ Return(t, ~th[t].setupErr)
    /\ UNCHANGED <<config, description, db, host, extConfigured, mockMode, faults, ops,
                   heartbeat, now, nt, deviceVars>>

-----------------------------------------------------------------------------
(* Network.Update(newNetwork, notify), network.go:1140-1276.               *)

\* network.go:1174-1199: the keys whose values differ.
ChangedConfig(old, new) == {k \in DOMAIN old \cup DOMAIN new : Get(old, k) # Get(new, k)}

\* network.go:1140-1213: backup, arm the deferred revert, diff, skip on no
\* change, stop the bridge when its driver changes.
UpdateBegin(t, put, notify) ==
    /\ CanCall(t)
    /\ ops' = ops + 1
    /\ LET changed == ChangedConfig(config, put.Config)
           f == [BeginCall("Update") EXCEPT
                   !.newNetwork = put, !.notify = notify,
                   !.oldConfig = config, !.oldDescription = description,
                   !.undoChanges = TRUE, !.changedConfig = changed,
                   !.userOnly = \A k \in changed : IsUserKey(k)]
       IN  th' = [th EXCEPT ![t] =
                 IF changed = {} /\ put.Description = description
                 THEN [f EXCEPT !.pc = "u_defer"]
                 ELSE IF ~f.userOnly /\ "bridge.driver" \in changed /\ IsRunning(host)
                 THEN CallStop(f, "u_stop_ret")
                 ELSE [f EXCEPT !.pc = "u_apply"]]
    /\ UNCHANGED <<config, description, db, host, extConfigured, mockMode, faults, rt,
                   heartbeat, now, nt, deviceVars>>

\* network.go:1209-1212: Stop's error is returned.
UpdateStopReturn(t) ==
    /\ th[t].pc = "u_stop_ret"
    /\ th' = [th EXCEPT ![t].pc = IF th[t].stopErr THEN "u_defer" ELSE "u_apply",
                        ![t].err = th[t].stopErr]
    /\ UNCHANGED <<config, description, db, host, extConfigured, mockMode, faults, ops, rt,
                   heartbeat, now, nt, deviceVars>>

\* network.go:1215-1235: the old external interfaces that are no longer listed.
ToDetach(f) ==
    {d \in Range(SplitList(Get(f.oldConfig, "bridge.external_interfaces"))) :
        /\ d # ""
        /\ d \notin Range(SplitList(Get(f.newNetwork.Config, "bridge.external_interfaces")))
        /\ d \in ExtIfaces}

\* An apply step that goes on to notify the peers whatever notify says.
UpdateApplyThenNotify(t) ==
    /\ th[t].pc = "u_apply"
    /\ faults' = faults
    /\ host' = host
    /\ config' = th[t].newNetwork.Config
    /\ description' = th[t].newNetwork.Description
    /\ th' = [th EXCEPT ![t].pc = "u_notify"]
    /\ UNCHANGED <<db, extConfigured, mockMode, ops, rt, heartbeat, now, nt, deviceVars>>

\* network.go:1215-1240: detach dropped external interfaces, then apply the
\* new config and description in memory.
UpdateApply(t) ==
    /\ th[t].pc = "u_apply"
    /\ LET f      == th[t]
           detach == IF ~f.userOnly /\ "bridge.external_interfaces" \in f.changedConfig
                        /\ IsRunning(host)
                     THEN ToDetach(f) ELSE {}
       IN  \/ /\ detach # {} /\ faults < MaxFaults
              /\ faults' = faults + 1
              /\ th' = [th EXCEPT ![t].pc = "u_defer", ![t].err = TRUE]
              /\ UNCHANGED <<config, description, host>>
           \/ /\ faults' = faults
              /\ host' = [host EXCEPT !.ports = @ \ detach]
              /\ config' = f.newNetwork.Config
              /\ description' = f.newNetwork.Description
              /\ th' = [th EXCEPT ![t].pc = IF f.notify THEN "u_setup" ELSE "u_notify"]
    /\ UNCHANGED <<db, extConfigured, mockMode, ops, rt, heartbeat, now, nt, deviceVars>>

\* An Update that goes on to the store whatever the notifier and the hooks
\* answered.
UpdateNotifyUnchecked(t) ==
    /\ th[t].pc = "u_notify"
    /\ LET nf == NewNotifier(heartbeat, now, "alive")
       IN  \E bad \in SUBSET nf.peers :
              th' = [th EXCEPT ![t].pc = "u_store", ![t].notifierBuilt = TRUE,
                               ![t].acked = nf.peers \ bad,
                               ![t].sent = {th[t].newNetwork.Config}]
    /\ UNCHANGED <<config, description, db, host, extConfigured, mockMode, faults, ops, rt,
                   heartbeat, now, nt, deviceVars>>

\* network.go:1243-1255: build the notifier with policy all and run the
\* UpdateNetwork hook on every peer with newNetwork as the payload.
UpdateNotify(t) ==
    /\ th[t].pc = "u_notify"
    /\ LET nf == NewNotifier(heartbeat, now, "all")
       IN  IF ~nf.ok
           THEN /\ faults' = faults
                /\ th' = [th EXCEPT ![t].pc = "u_defer", ![t].err = TRUE]
           ELSE \/ /\ faults' = faults
                   /\ th' = [th EXCEPT ![t].pc = "u_store", ![t].notifierBuilt = TRUE,
                                       ![t].acked = nf.peers,
                                       ![t].sent = {th[t].newNetwork.Config}]
                \/ /\ faults < MaxFaults
                   /\ faults' = faults + 1
                   /\ \E bad \in nf.peers :
                        th' = [th EXCEPT ![t].pc = "u_defer", ![t].err = TRUE,
                                         ![t].notifierBuilt = TRUE,
                                         ![t].acked = nf.peers \ {bad},
                                         ![t].sent = {th[t].newNetwork.Config}]
    /\ UNCHANGED <<config, description, db, host, extConfigured, mockMode, ops, rt,
                   heartbeat, now, nt, deviceVars>>

\* network.go:1257-1261: write the store.
UpdateStore(t) ==
    /\ th[t].pc = "u_store"
    /\ \/ /\ faults' = faults
          /\ db' = Record(config, description)
          /\ th' = [th EXCEPT ![t].pc = "u_setup", ![t].wroteNew = TRUE, ![t].wroteStore = TRUE]
       \/ /\ faults < MaxFaults
          /\ faults' = faults + 1
          /\ db' = db
          /\ th' = [th EXCEPT ![t].pc = "u_defer", ![t].err = TRUE]
    /\ UNCHANGED <<config, description, host, extConfigured, mockMode, ops, rt,
                   heartbeat, now, nt, deviceVars>>

\* network.go:1264-1266: restart the network unless only user keys changed.
UpdateSetup(t) ==
    /\ th[t].pc = "u_setup"
    /\ th' = [th EXCEPT ![t] =
                IF ~th[t].userOnly
                THEN CallSetup([@ EXCEPT !.ranSetup = TRUE], th[t].oldConfig, "u_setup_ret")
                ELSE [@ EXCEPT !.pc = "u_defer", !.undoChanges = FALSE]]
    /\ UNCHANGED <<config, description, db, host, extConfigured, mockMode, faults, ops, rt,
                   heartbeat, now, nt, deviceVars>>

\* network.go:1267-1275: setup's error is returned; on success keep the changes.
UpdateSetupReturn(t) ==
    /\ th[t].pc = "u_setup_ret"
    /\ th' = [th EXCEPT ![t].pc = "u_defer",
                        ![t].err = th[t].setupErr,
                        ![t].undoChanges = th[t].setupErr]
    /\ UNCHANGED <<config, description, db, host, extConfigured, mockMode, faults, ops, rt,
                   heartbeat, now, nt, deviceVars>>

\* network.go:1159-1172: the deferred closure.  While undoChanges holds it
\* restores the struct, writes the store and re-runs setup, ignoring errors.
UpdateDeferred(t) ==
    /\ th[t].pc = "u_defer"
    /\ IF th[t].undoChanges
       THEN /\ config' = th[t].oldConfig
            /\ description' = th[t].oldDescription
            /\ \/ /\ faults' = faults
                  /\ db' = Record(th[t].oldConfig, th[t].oldDescription)
                  /\ th' = [th EXCEPT ![t] = CallSetup([@ EXCEPT !.wroteStore = TRUE],
                                                       th[t].newNetwork.Config, "u_return")]
               \/ /\ faults < MaxFaults
                  /\ faults' = faults + 1
                  /\ db' = db
                  /\ th' = [th EXCEPT ![t] = CallSetup(@, th[t].newNetwork.Config, "u_return")]
       ELSE /\ th' = [th EXCEPT ![t].pc = "u_return"]
            /\ UNCHANGED <<config, description, db, faults>>
    /\ UNCHANGED <<host, extConfigured, mockMode, ops, rt, heartbeat, now, nt, deviceVars>>

UpdateReturn(t) ==
    /\ th[t].pc = "u_return"
    /\ Return(t, ~th[t].err)
    /\ UNCHANGED <<config, description, db, host, extConfigured, mockMode, faults, ops,
                   heartbeat, now, nt, deviceVars>>


-----------------------------------------------------------------------------
(* Network.Delete(withDatabase), network.go:92-114.                        *)

\* network.go:94-99: bring the network down if it is running.
DeleteBegin(t, withDatabase) ==
    /\ CanCall(t)
    /\ ops' = ops + 1
    /\ LET f == [BeginCall("Delete") EXCEPT !.withDatabase = withDatabase]
       IN  th' = [th EXCEPT ![t] = IF IsRunning(host) THEN CallStop(f, "d_store")
                                   ELSE [f EXCEPT !.pc = "d_store"]]
    /\ UNCHANGED <<config, description, db, host, extConfigured, mockMode, faults, rt,
                   heartbeat, now, nt, deviceVars>>

\* A Delete that removes the network from the store whatever Stop returned
\* and whatever withDatabase says.
DeleteStoreAlways(t) ==
    /\ th[t].pc = "d_store"
    /\ db' = NoRecord
    /\ faults' = faults
    /\ Return(t, ~th[t].stopErr)
    /\ UNCHANGED <<config, description, host, extConfigured, mockMode, ops,
                   heartbeat, now, nt, deviceVars>>

\* network.go:96-113: return Stop's error; without withDatabase do no store
\* work; otherwise remove the network from the store.
DeleteStore(t) ==
    /\ th[t].pc = "d_store"
    /\ IF th[t].stopErr
       THEN /\ Return(t, FALSE)
            /\ UNCHANGED <<db, faults>>
       ELSE IF ~th[t].withDatabase
       THEN /\ Return(t, TRUE)
            /\ UNCHANGED <<db, faults>>
       ELSE \/ /\ faults' = faults
               /\ db' = NoRecord
               /\ Return(t, TRUE)
            \/ /\ faults < MaxFaults
               /\ faults' = faults + 1
               /\ db' = db
               /\ Return(t, FALSE)
    /\ UNCHANGED <<config, description, host, extConfigured, mockMode, ops,
                   heartbeat, now, nt, deviceVars>>

-----------------------------------------------------------------------------
(* common.update(applyNetwork, targetNode, clientType),                    *)
(* driver_common.go:236-280.                                               *)

\* driver_common.go:252-261: the payload sent to the peers.
SendNetwork(c) == [k \in DOMAIN c \ NodeSpecificNetworkConfig |-> c[k]]

CommonUpdate(t, put, targetNode, clientType) ==
    /\ CanCall(t)
    /\ ops' = ops + 1
    /\ config' = put.Config
    /\ description' = put.Description
    /\ LET f  == [BeginCall("CommonUpdate") EXCEPT !.newNetwork = put,
                                                  !.notify = (clientType = "notifier")]
           nf == NewNotifier(heartbeat, now, "all")
           stored(g) ==
               \/ /\ faults' = faults
                  /\ db' = Record(put.Config, put.Description)
                  /\ th' = [th EXCEPT ![t] = [g EXCEPT !.ret = "ok", !.wroteNew = TRUE,
                                                       !.wroteStore = TRUE]]
               \/ /\ faults < MaxFaults
                  /\ faults' = faults + 1
                  /\ db' = db
                  /\ th' = [th EXCEPT ![t] = [g EXCEPT !.ret = "err"]]
       IN  IF clientType = "notifier"
           THEN /\ th' = [th EXCEPT ![t] = [f EXCEPT !.ret = "ok"]]
                /\ UNCHANGED <<db, faults>>
           ELSE IF targetNode # ""
           THEN stored([f EXCEPT !.targetNode = targetNode])
           ELSE IF ~nf.ok
           THEN /\ th' = [th EXCEPT ![t] = [f EXCEPT !.ret = "err"]]
                /\ UNCHANGED <<db, faults>>
           ELSE \/ stored([f EXCEPT !.notifierBuilt = TRUE, !.acked = nf.peers,
                                    !.sent = {SendNetwork(put.Config)}])
                \/ /\ faults < MaxFaults
                   /\ faults' = faults + 1
                   /\ db' = db
                   /\ \E bad \in nf.peers :
                        th' = [th EXCEPT ![t] = [f EXCEPT !.ret = "err", !.notifierBuilt = TRUE,
                                                          !.acked = nf.peers \ {bad},
                                                          !.sent = {SendNetwork(put.Config)}]]
    /\ rt' = NoHistory
    /\ UNCHANGED <<host, extConfigured, mockMode, heartbeat, now, nt, deviceVars>>

-----------------------------------------------------------------------------
(* Routed NIC devices and supervised children: their state at rest.        *)

Nics == {"a", "b"}

Pids == {1, 2}

Supervisors == {"proxy", "forkdns"}

\* The device config of a routed NIC on the parent eth0: vlan set, name set,
\* a pinned host_name or "", and whether ipv4.address and ipv6.address list
\* an address.
NicConfigs == [vlan : BOOLEAN, name : BOOLEAN, host_name : {"", "vethpin"},
               address : BOOLEAN, address6 : {FALSE}]

\* The volatile keys of a device: host_name and last_state.created.
NoVolatile == [host_name |-> "", created |-> FALSE]

\* The interfaces whose sysctls the device reads: every interface, the
\* parent and the VLAN interface on the parent.
Parent == "eth0"
VlanParent == "eth0.10"

\* The sysctls that are 1: interface and key.
ParentSysctls(iface) == {<<iface, k>> : k \in {"ipv4.forwarding", "ipv6.forwarding", "ipv6.proxy_ndp"}}
AllSysctls == {<<"all", "ipv6.forwarding">>, <<"all", "ipv6.proxy_ndp">>} \cup ParentSysctls(Parent)

NoNicHost == [vlanParent |-> FALSE,   \* the VLAN parent interface exists
              parentBy |-> "",        \* the NIC whose Start created it, "host": it was there
              sysctl |-> AllSysctls,  \* the sysctls that are 1
              sysctlsBy |-> {},       \* NICs whose Start wrote sysctls of the VLAN parent
              veths |-> {},           \* hostside interfaces: [name, owner]
              addrs |-> {},           \* gateway addresses and host routes: [dev, owner, kind]
              neigh |-> {},           \* NICs with neighbour proxy entries on the parent
              rpf |-> {},             \* NICs with reverse path filter rules
              volatile |-> [i \in Nics |-> NoVolatile]]

IdleNic == [pc |-> "idle",
            cfg |-> [vlan |-> FALSE, name |-> TRUE, host_name |-> "", address |-> FALSE,
                     address6 |-> FALSE],
            created |-> FALSE,    \* saveData["last_state.created"]
            hostName |-> "",      \* saveData["host_name"]
            veth |-> FALSE,       \* the undo of the hostside interface is registered
            proxied |-> FALSE,    \* an undo of a neighbour proxy is registered
            failed |-> {},        \* the steps of the last postStop that failed
            stop |-> "none",      \* what the last postStop returned
            ret |-> "none", failedAt |-> "none"]

IdleKill == [pc |-> "idle", pid |-> 0, ret |-> "none"]

\* The NIC devices of the instance a proxy device belongs to, by name.
DevNames == {"eth0", "eth1"}

\* A device of the instance: a bridged NIC, a routed NIC or a disk, with its
\* static addresses and its volatile host_name.
InstDevices ==
    [type : {"nic"}, nictype : {"bridged", "routed"}, v4 : {"", "10.0.0.5", "10.0.0.6"},
     v6 : {"", "fd42::5"}, host_name : {"", "vethA"}]
    \cup [type : {"disk"}, nictype : {""}, v4 : {""}, v6 : {""}, host_name : {""}]

NoDevice == [type |-> "disk", nictype |-> "", v4 |-> "", v6 |-> "", host_name |-> ""]

IdleProxy == [pc |-> "idle", cfg |-> [nat |-> FALSE, connect |-> ""], order |-> <<>>,
              connectIP |-> "", hostName |-> "", dev |-> "", netfilter |-> FALSE,
              ret |-> "none", last |-> "none", launched |-> FALSE,
              pre |-> [rules |-> {}, hairpin |-> {}]]

NoProxyHost == [devices |-> [d \in DevNames |-> NoDevice],
                rules |-> {},         \* proxy NAT rules of the device: [listen, connect]
                hairpin |-> {},       \* bridge ports with hairpin mode on
                forwarder |-> FALSE,  \* a forkproxy child runs
                pidfile |-> FALSE]    \* devices/proxy.<name> exists

InitProxyIdle == px = IdleProxy /\ pxHost = NoProxyHost

IdleFan == [underlay |-> [ip |-> <<0, 0, 0, 0>>, size |-> 0],
            overlay |-> [ip |-> <<0, 0, 0, 0>>, size |-> 0],
            ifaces |-> <<>>, done |-> FALSE,
            res |-> [ok |-> FALSE, ip |-> <<>>, size |-> 0, dev |-> "", devAddr |-> <<>>]]

\* The servers list a running network has on disk.
FirstServers == <<"10.0.0.2">>

IdleWriter == [pc |-> "idle", addresses |-> <<>>, written |-> 0, tmpFile |-> 0, ret |-> "none"]

\* Files are inodes: a name points to an inode, an inode has a content.
\* Inode 1 is servers.conf as it stands; servers.conf.tmp does not exist.
IdleForkdns ==
    [lock |-> 0,                               \* holder of forkdnsServersLock, 0 if free
     perm |-> 1,                               \* inode of servers.conf
     tmp |-> 0,                                \* inode of servers.conf.tmp, 0 if absent
     inodes |-> <<FirstServers>>,              \* content of every inode created
     w |-> [t \in Callers |-> IdleWriter],     \* the calls of updateForkdnsServersFile
     calls |-> 0,
     rdOpen |-> 0,                             \* inode the reader has open, 0 if none
     seen |-> {}]                              \* every list the reader has read

IdleValidate == [config |-> <<>>, driverRules |-> <<>>, done |-> FALSE,
                 res |-> [err |-> "", keys |-> {}]]

\* No BGP peer is configured and the speaker has none.
IdleBgp == [config |-> <<>>,       \* n.config: the bgp.peers.<name>.* keys by peer name
            oldConfig |-> <<>>,    \* the oldConfig of the last bgpSetupPeers call
            speaker |-> {},        \* the peers of the BGP speaker: [address, asn, password]
            called |-> FALSE,
            removed |-> {},        \* addresses the last call passed to RemovePeer
            added |-> {}]          \* peers the last call passed to AddPeer

FanIdle == fan = IdleFan

ForkdnsIdle == fdns = IdleForkdns

ValidateIdle == val = IdleValidate

BgpIdle == bgp = IdleBgp

\* The RBAC client after NewServer: a live context, no status loop.
IdleRbac == [pc |-> "none",        \* the loop's position; "none": no goroutine
             cancelled |-> FALSE,  \* r.ctx is cancelled
             status |-> 0,         \* status.LastChange, 0 for ""
             query |-> 0,          \* the last-change value in u.RawQuery, 0: none
             lastChange |-> 0,     \* r.lastChange
             flushes |-> 0,        \* calls of r.flushCache
             requests |-> 0]       \* requests that reached the RBAC server

RbacIdle == rbac = IdleRbac

InitUnits == FanIdle /\ ForkdnsIdle /\ ValidateIdle /\ BgpIdle /\ RbacIdle

InitDevices ==
    /\ InitProxyIdle
    /\ InitUnits
    /\ nicLock = ""
    /\ nic = [i \in Nics |-> IdleNic]
    /\ nicHost = NoNicHost
    /\ procs = [p \in Pids |-> "none"]
    /\ pidfile = [s \in Supervisors |-> 0]
    /\ kl = [s \in Supervisors |-> IdleKill]
    /\ signals = {}

-----------------------------------------------------------------------------
(* The engine with one caller at a time.                                   *)

IdleNotifier == [policy |-> "none", built |-> FALSE, err |-> <<>>, peers |-> {},
                 down |-> {}, calls |-> EmptyBag, done |-> FALSE]

AllAlive == [m \in Members |-> MaxTime]

InitCluster ==
    /\ now = MaxTime
    /\ heartbeat \in {AllAlive, [AllAlive EXCEPT !["m3"] = 0]}
    /\ heartbeat # AllAlive => config \in {CfgNat, CfgOvs} /\ extConfigured = {} /\ ~mockMode
    /\ nt = IdleNotifier

Init == InitNet /\ InitCluster /\ InitDevices

SetupStep(t) ==
    \/ SetupBridge(t)
    \/ SetupLink(t)
    \/ SetupExternal(t)
    \/ SetupClear4(t)
    \/ SetupFirewall4(t)
    \/ SetupIPv4(t)
    \/ SetupClear6(t)
    \/ SetupIPv6(t)
    \/ SetupFan(t)
    \/ SetupTunnels(t)
    \/ SetupDnsmasq(t)

StopStep(t) == StopBridge(t) \/ StopCleanup(t)

UpdateBody(t) ==
    \/ UpdateStopReturn(t)
    \/ UpdateApply(t)
    \/ UpdateNotify(t)
    \/ UpdateStore(t)
    \/ UpdateSetup(t)
    \/ UpdateSetupReturn(t)
    \/ UpdateDeferred(t)
    \/ UpdateReturn(t)

UpdateStep(t) ==
    \/ \E put \in Puts, notify \in BOOLEAN : UpdateBegin(t, put, notify)
    \/ UpdateBody(t)

DeleteStep(t) ==
    \/ \E withDatabase \in BOOLEAN : DeleteBegin(t, withDatabase)
    \/ DeleteStore(t)

\* The requests common.update is called with.
CommonPuts == {p \in Puts : p.Config \in {CfgOvs, CfgUser} \/ p.Description # ""}

CommonUpdateStep(t) ==
    \E put \in CommonPuts, targetNode \in {"", "m2"}, clientType \in {"normal", "notifier"} :
        /\ clientType = "notifier" => targetNode = ""
        /\ CommonUpdate(t, put, targetNode, clientType)

Engine(t) ==
    \/ Start(t)
    \/ StartReturn(t)
    \/ SetupStep(t)
    \/ StopStep(t)
    \/ UpdateStep(t)
    \/ DeleteStep(t)
    \/ CommonUpdateStep(t)

\* Calls are serialised by the caller: a new call starts when none is running.
NoCallRunning == \A t \in Callers : th[t].pc = "idle"

Next == \E t \in {1} : Engine(t)

Spec == Init /\ [][Next]_vars


-----------------------------------------------------------------------------
(* The engine with two callers and no serialisation by the caller: API     *)
(* requests for one network are served by concurrent goroutines.           *)

ConcurrentPuts == {[Config |-> CfgOvs, Description |-> ""]}

\* Two calls remain, and no collaborator fails.
InitConcurrent ==
    /\ config = CfgNat /\ description = "" /\ db = Record(config, description)
    /\ host = EmptyHost /\ extConfigured = {} /\ mockMode = FALSE
    /\ th = [t \in Callers |-> IdleFrame]
    /\ faults = MaxFaults /\ ops = MaxOps - 2 /\ rt = NoHistory
    /\ now = MaxTime /\ heartbeat = AllAlive /\ nt = IdleNotifier
    /\ InitDevices

ConcurrentEngine(t) ==
    \/ Start(t)
    \/ StartReturn(t)
    \/ SetupStep(t)
    \/ StopStep(t)
    \/ \E put \in ConcurrentPuts : UpdateBegin(t, put, FALSE)
    \/ UpdateBody(t)
    \/ DeleteBegin(t, TRUE)
    \/ DeleteStore(t)

NextConcurrent == \E t \in Callers : ConcurrentEngine(t)

SpecConcurrent == InitConcurrent /\ [][NextConcurrent]_vars

-----------------------------------------------------------------------------
(* The notifier on its own: heartbeats, the clock, construction under a    *)
(* policy, and the run of the hook on each peer.                           *)

\* time.Minute in units of ten seconds.
Minute == 6

EngineIdle ==
    /\ config = CfgNat /\ description = "" /\ db = Record(config, description)
    /\ host = EmptyHost /\ extConfigured = {} /\ mockMode = FALSE
    /\ th = [t \in Callers |-> IdleFrame]
    /\ faults = 0 /\ ops = 0 /\ rt = NoHistory

InitNotify ==
    /\ EngineIdle
    /\ InitDevices
    /\ now = 0
    /\ heartbeat = [m \in Members |-> 0]
    /\ nt = IdleNotifier

\* The clock advances.
Tick ==
    /\ now < MaxTime
    /\ now' = now + 1
    /\ UNCHANGED <<netVars, heartbeat, nt, deviceVars>>

\* A member's heartbeat is recorded (SetNodeHeartbeat with the current time).
Heartbeat(m) ==
    /\ heartbeat[m] # now
    /\ heartbeat' = [heartbeat EXCEPT ![m] = now]
    /\ UNCHANGED <<netVars, now, nt, deviceVars>>

\* notifyFixtures.Down: the member's heartbeat is set one minute back.
Down(m) ==
    /\ heartbeat[m] # now - Minute
    /\ heartbeat' = [heartbeat EXCEPT ![m] = now - Minute]
    /\ UNCHANGED <<netVars, now, nt, deviceVars>>

\* notifier, err := cluster.NewNotifier(state, cert, cert, policy)
Construct(policy) ==
    /\ nt.policy = "none"
    /\ LET nf == NewNotifier(heartbeat, now, policy)
       IN  nt' = [policy |-> policy, built |-> nf.ok, err |-> nf.err, peers |-> nf.peers,
                  down |-> {m \in Members \ {Local} : now - heartbeat[m] >= OfflineThreshold},
                  calls |-> EmptyBag, done |-> FALSE]
    /\ UNCHANGED <<netVars, heartbeat, now, deviceVars>>

\* notifier(hook): the hook runs against one more peer of the notifier.
HookRun(m) ==
    /\ nt.built /\ ~nt.done
    /\ m \in nt.peers /\ ~BagIn(m, nt.calls)
    /\ nt' = [nt EXCEPT !.calls = BagAdd(@, m)]
    /\ UNCHANGED <<netVars, heartbeat, now, deviceVars>>

\* notifier(hook) returns once the hook ran against every peer.
HookDone ==
    /\ nt.built /\ ~nt.done
    /\ \A m \in nt.peers : BagIn(m, nt.calls)
    /\ nt' = [nt EXCEPT !.done = TRUE]
    /\ UNCHANGED <<netVars, heartbeat, now, deviceVars>>

\* The notifier is dropped.
Discard ==
    /\ nt.policy # "none"
    /\ nt.done \/ ~nt.built
    /\ nt' = IdleNotifier
    /\ UNCHANGED <<netVars, heartbeat, now, deviceVars>>

NextNotify ==
    \/ Tick
    \/ \E m \in Members : Heartbeat(m)
    \/ \E m \in Members : Down(m)
    \/ \E policy \in {"all", "alive"} : Construct(policy)
    \/ \E m \in Members : HookRun(m)
    \/ HookDone
    \/ Discard

SpecNotify == InitNotify /\ [][NextNotify]_vars

-----------------------------------------------------------------------------
(* nicRouted.Start and postStop, nic_routed.go:239-465 and 532-590, for    *)
(* two routed NICs of instances that start in parallel.                    *)

InitNic ==
    /\ EngineIdle
    /\ now = 0 /\ heartbeat = [m \in Members |-> 0] /\ nt = IdleNotifier
    /\ InitDevices

NicFrame == <<netVars, heartbeat, now, nt, procs, pidfile, kl, signals, proxyVars, unitVars>>

\* The instance starts: Start is entered.
NicStart(i, cfg) ==
    /\ nic[i].pc = "idle"
    /\ nic' = [nic EXCEPT ![i] = [IdleNic EXCEPT !.pc = "validate", !.cfg = cfg]]
    /\ UNCHANGED <<nicLock, nicHost, NicFrame>>

\* network.GetHostDevice(parent, vlan): the interface the NIC is routed over.
EffectiveParent(cfg) == IF cfg.vlan THEN VlanParent ELSE Parent

\* The sysctls routed mode needs for the addresses of the config.
RequiredSysctls(cfg) ==
    (IF cfg.address6
     THEN {<<"all", "ipv6.forwarding">>, <<"all", "ipv6.proxy_ndp">>,
           <<EffectiveParent(cfg), "ipv6.forwarding">>, <<EffectiveParent(cfg), "ipv6.proxy_ndp">>}
     ELSE {})
    \cup (IF cfg.address THEN {<<EffectiveParent(cfg), "ipv4.forwarding">>} ELSE {})

\* nic_routed.go:114-199: validateEnvironment accepts.  The name property is
\* required; the sysctl checks are skipped when the VLAN interface is yet to
\* be created.
validateEnvironment(h, cfg) ==
    /\ cfg.name
    /\ \/ cfg.vlan /\ ~h.vlanParent
       \/ RequiredSysctls(cfg) \subseteq h.sysctl

\* nic_routed.go:240-243: validateEnvironment runs first; its error, or an
\* error reading a sysctl, returns at once.
NicValidate(i) ==
    /\ nic[i].pc = "validate"
    /\ \E readable \in BOOLEAN :
          LET ok == validateEnvironment(nicHost, nic[i].cfg) /\ readable
          IN  nic' = [nic EXCEPT ![i].pc = IF ok THEN "lock" ELSE "idle",
                                 ![i].ret = IF ok THEN "none" ELSE "err",
                                 ![i].failedAt = IF ok THEN "none" ELSE "validate"]
    /\ UNCHANGED <<nicLock, nicHost, NicFrame>>

\* nic_routed.go:246: networkCreateSharedDeviceLock.Lock()
NicLock(i) ==
    /\ nic[i].pc = "lock"
    /\ nicLock = ""
    /\ nicLock' = i
    /\ nic' = [nic EXCEPT ![i].pc = "vlan"]
    /\ UNCHANGED <<nicHost, NicFrame>>

NicFail(i, at) == [nic EXCEPT ![i].pc = "fail", ![i].failedAt = at]

\* networkCreateVlanDeviceIfNeeded: the VLAN interface is created unless it
\* exists; a new interface has no sysctl set.
CreateVlanDeviceIfNeeded(h, i) ==
    IF h.vlanParent THEN h ELSE [h EXCEPT !.vlanParent = TRUE, !.parentBy = i]

\* nic_routed.go:470-496: forwarding and proxy_ndp of the parent are set for
\* the families that have addresses.
setupParentSysctls(h, i) ==
    LET cfg == nic[i].cfg
        set == (IF cfg.address THEN {<<VlanParent, "ipv4.forwarding">>} ELSE {})
               \cup (IF cfg.address6 THEN {<<VlanParent, "ipv6.forwarding">>,
                                           <<VlanParent, "ipv6.proxy_ndp">>} ELSE {})
    IN  IF set = {} THEN h ELSE [h EXCEPT !.sysctl = @ \cup set, !.sysctlsBy = @ \cup {i}]

\* A Start that sets the sysctls of the VLAN parent whether or not it created it.
VlanDeviceWithSysctls(h, i) == setupParentSysctls(CreateVlanDeviceIfNeeded(h, i), i)

\* nic_routed.go:255-275: with vlan set, create the VLAN parent unless it
\* exists, and set the sysctls of a parent that was created.
VlanDevice(h, i) ==
    IF h.vlanParent THEN h ELSE setupParentSysctls(CreateVlanDeviceIfNeeded(h, i), i)

\* nic_routed.go:255-275: the VLAN parent; creating it or setting its
\* sysctls may fail, the latter with the undo of the parent registered.
NicVlan(i) ==
    /\ nic[i].pc = "vlan"
    /\ LET created == nic[i].cfg.vlan /\ ~nicHost.vlanParent
       IN  \/ /\ nic[i].cfg.vlan
              /\ nic' = NicFail(i, "vlan")
              /\ nicHost' = nicHost
           \/ /\ created
              /\ nic' = [NicFail(i, "vlan") EXCEPT ![i].created = TRUE]
              /\ nicHost' = CreateVlanDeviceIfNeeded(nicHost, i)
           \/ /\ nicHost' = IF nic[i].cfg.vlan THEN VlanDevice(nicHost, i) ELSE nicHost
              /\ nic' = [nic EXCEPT ![i].pc = "veth", ![i].created = created]
    /\ UNCHANGED <<nicLock, NicFrame>>

\* network.RandomDevName("veth"): a fresh interface name.
RandomDevName(i) == "veth" \o i

\* The interface name Start uses: the pinned host_name or a generated one.
HostName(i) == IF nic[i].cfg.host_name = "" THEN RandomDevName(i) ELSE nic[i].cfg.host_name

InterfaceExists(h, name) == \E v \in h.veths : v.name = name

\* network.InterfaceRemove(name): the interface goes with its addresses and
\* routes.
InterfaceRemove(h, name) ==
    [h EXCEPT !.veths = {v \in @ : v.name # name}, !.addrs = {a \in @ : a.dev # name}]

\* nic_routed.go:277-305: address availability, then the veth pair or the
\* tap; creating an interface whose name exists fails.
NicVeth(i) ==
    /\ nic[i].pc = "veth"
    /\ \/ /\ nic' = [NicFail(i, "veth") EXCEPT ![i].hostName = HostName(i)]
          /\ nicHost' = nicHost
       \/ /\ ~InterfaceExists(nicHost, HostName(i))
          /\ nicHost' = [nicHost EXCEPT !.veths = @ \cup {[name |-> HostName(i), owner |-> i]}]
          /\ nic' = [nic EXCEPT ![i].pc = "limits", ![i].veth = TRUE, ![i].hostName = HostName(i)]
    /\ UNCHANGED <<nicLock, NicFrame>>

\* nic_routed.go:308-332: host-side limits, the accept_ra and rp_filter
\* sysctls, then Firewall.InstanceSetupRPFilter.
NicLimits(i) ==
    /\ nic[i].pc = "limits"
    /\ \/ /\ nic' = NicFail(i, "limits")
          /\ nicHost' = nicHost
       \/ /\ nicHost' = [nicHost EXCEPT !.rpf = @ \cup {i}]
          /\ nic' = [nic EXCEPT ![i].pc = "addrs"]
    /\ UNCHANGED <<nicLock, NicFrame>>

\* The gateway address and the host route of the NIC on its hostside interface.
HostSide(i) ==
    IF nic[i].cfg.address
    THEN {[dev |-> nic[i].hostName, owner |-> i, kind |-> k] : k \in {"gateway", "route"}}
    ELSE {}

\* nic_routed.go:335-412: gateway addresses, routes and neighbour proxies;
\* an error may come after some of them were added.
NicAddresses(i) ==
    /\ nic[i].pc = "addrs"
    /\ LET done == [nicHost EXCEPT !.addrs = @ \cup HostSide(i),
                                  !.neigh = IF nic[i].cfg.address THEN @ \cup {i} ELSE @]
       IN  \/ /\ nic[i].cfg.address
              /\ nic' = NicFail(i, "addrs")
              /\ nicHost' = nicHost
           \/ /\ nic[i].cfg.address
              /\ nic' = [NicFail(i, "addrs") EXCEPT ![i].proxied = TRUE]
              /\ nicHost' = done
           \/ /\ nicHost' = done
              /\ nic' = [nic EXCEPT ![i].pc = "finish", ![i].proxied = nic[i].cfg.address]
    /\ UNCHANGED <<nicLock, NicFrame>>

\* The VLAN parent is still needed by another NIC.
ParentInUse(i) ==
    \E j \in Nics \ {i} : nic[j].cfg.vlan /\ nic[j].pc \in {"veth", "limits", "addrs", "finish", "fail", "started"}

\* networkRemoveInterfaceIfNeeded: the VLAN parent goes unless another NIC
\* uses it.
RemoveParentIfNeeded(h, i) ==
    IF ParentInUse(i) THEN h
    ELSE [h EXCEPT !.vlanParent = FALSE, !.parentBy = "", !.sysctlsBy = {},
                   !.sysctl = @ \ ParentSysctls(VlanParent)]

\* revert.Fail runs the registered undos in reverse: the neighbour proxies
\* (409), the hostside interface (305), the VLAN parent this Start created
\* (266-268).
Reverted(i) ==
    LET h1 == IF nic[i].proxied THEN [nicHost EXCEPT !.neigh = @ \ {i}] ELSE nicHost
        h2 == IF nic[i].veth THEN InterfaceRemove(h1, nic[i].hostName) ELSE h1
    IN  IF nic[i].created THEN RemoveParentIfNeeded(h2, i) ELSE h2

NicUnlocked(i) == IF nicLock = i THEN "" ELSE nicLock

\* An error return that skips the Unlock.
NicReturnErrorKeepingLock(i) ==
    /\ nic[i].pc = "fail"
    /\ nicHost' = Reverted(i)
    /\ nic' = [nic EXCEPT ![i].pc = "idle", ![i].ret = "err"]
    /\ UNCHANGED <<nicLock, NicFrame>>

\* A return with an error: the deferred revert.Fail and Unlock run
\* (nic_routed.go:247 and 250).
NicReturnError(i) ==
    /\ nic[i].pc = "fail"
    /\ nicHost' = Reverted(i)
    /\ nicLock' = NicUnlocked(i)
    /\ nic' = [nic EXCEPT ![i].pc = "idle", ![i].ret = "err"]
    /\ UNCHANGED NicFrame

\* A volatileSet that stores no host_name.
VolatileSetWithoutName(h, i) ==
    [h EXCEPT !.volatile[i] = [host_name |-> "", created |-> nic[i].created]]

\* d.volatileSet(saveData), nic_routed.go:414.
VolatileSet(h, i) ==
    [h EXCEPT !.volatile[i] = [host_name |-> nic[i].hostName, created |-> nic[i].created]]

\* nic_routed.go:414-465: save the volatile keys, build the run config,
\* revert.Success, return; the deferred Unlock runs.
NicFinish(i) ==
    /\ nic[i].pc = "finish"
    /\ \/ /\ nic' = NicFail(i, "finish")
          /\ nicLock' = nicLock
          /\ nicHost' = nicHost
       \/ /\ nic' = [nic EXCEPT ![i].pc = "started", ![i].ret = "ok"]
          /\ nicLock' = NicUnlocked(i)
          /\ nicHost' = VolatileSet(nicHost, i)
    /\ UNCHANGED NicFrame

\* The cleanup steps of postStop, in the order it runs them.
PostStopSteps == {"interface", "neigh", "parent", "rpf"}

\* The steps of postStop whose error is appended to errs.
CollectedSteps == {"interface", "parent", "rpf"}

\* The interface postStop removes: host_name of the config, filled from the
\* volatile key when empty (networkVethFillFromVolatile).
StopName(i) ==
    IF nic[i].cfg.host_name = "" THEN nicHost.volatile[i].host_name ELSE nic[i].cfg.host_name

\* The steps of postStop that have something to do.
ApplicableSteps(i) ==
    {"neigh", "rpf"}
    \cup (IF InterfaceExists(nicHost, StopName(i)) THEN {"interface"} ELSE {})
    \cup (IF nicHost.volatile[i].created THEN {"parent"} ELSE {})

\* A postStop that returns at the first step that fails.
PostStoppedUntilFailure(i, failed) ==
    LET v    == nicHost.volatile[i]
        go1  == "interface" \notin failed
        go2  == go1 /\ "neigh" \notin failed
        go3  == go2 /\ "parent" \notin failed
        go4  == go3 /\ "rpf" \notin failed
        h1   == IF InterfaceExists(nicHost, StopName(i)) /\ go1
                THEN InterfaceRemove(nicHost, StopName(i)) ELSE nicHost
        h2   == IF go2 THEN [h1 EXCEPT !.neigh = @ \ {i}] ELSE h1
        h3   == IF v.created /\ go3 THEN RemoveParentIfNeeded(h2, i) ELSE h2
        h4   == IF go4 THEN [h3 EXCEPT !.rpf = @ \ {i}] ELSE h3
    IN  [h4 EXCEPT !.volatile[i] = NoVolatile]

\* nic_routed.go:532-590: postStop removes the interface the volatile
\* host_name names, the neighbour proxies, the VLAN parent Start created and
\* the reverse path filter rules, each unless that step fails, and the
\* deferred volatileSet clears the volatile keys.
PostStopped(i, failed) ==
    LET v    == nicHost.volatile[i]
        h1   == IF InterfaceExists(nicHost, StopName(i)) /\ "interface" \notin failed
                THEN InterfaceRemove(nicHost, StopName(i)) ELSE nicHost
        h2   == IF "neigh" \notin failed THEN [h1 EXCEPT !.neigh = @ \ {i}] ELSE h1
        h3   == IF v.created /\ "parent" \notin failed THEN RemoveParentIfNeeded(h2, i) ELSE h2
        h4   == IF "rpf" \notin failed THEN [h3 EXCEPT !.rpf = @ \ {i}] ELSE h3
    IN  [h4 EXCEPT !.volatile[i] = NoVolatile]

\* nic_routed.go:582-589: the errors collected in errs are returned.
PostStopReturn(failed) == IF failed \cap CollectedSteps = {} THEN "ok" ELSE "err"

\* postStop of a started NIC; failed are the steps that fail.
NicPostStop(i, failed) ==
    /\ nic[i].pc = "started"
    /\ failed \subseteq ApplicableSteps(i)
    /\ nicHost' = PostStopped(i, failed)
    /\ nic' = [nic EXCEPT ![i] = [IdleNic EXCEPT !.ret = nic[i].ret,
                                                 !.failed = failed,
                                                 !.stop = PostStopReturn(failed)]]
    /\ UNCHANGED <<nicLock, NicFrame>>

NextNic ==
    \E i \in Nics :
        \/ \E cfg \in NicConfigs : NicStart(i, cfg)
        \/ NicValidate(i)
        \/ NicLock(i)
        \/ NicVlan(i)
        \/ NicVeth(i)
        \/ NicLimits(i)
        \/ NicAddresses(i)
        \/ NicReturnError(i)
        \/ NicFinish(i)
        \/ NicPostStop(i, {})

SpecNic == InitNic /\ [][NextNic]_vars

-----------------------------------------------------------------------------
(* Routed NICs with IPv4 and IPv6 addresses on hosts where the VLAN        *)
(* interface may exist before any Start and some of the sysctls routed     *)
(* mode needs may be off.                                                  *)

NicParentConfigs == [vlan : BOOLEAN, name : {TRUE}, host_name : {""},
                     address : {TRUE}, address6 : BOOLEAN]

\* The sysctls that are 1 on a host: all that are needed, all but those
\* shared by every interface, or all but IPv4 forwarding of the parents.
SysctlStates(vlanExists) ==
    LET every == AllSysctls \cup (IF vlanExists THEN ParentSysctls(VlanParent) ELSE {})
    IN  {every,
         every \ {<<"all", "ipv6.forwarding">>, <<"all", "ipv6.proxy_ndp">>},
         every \ {<<Parent, "ipv4.forwarding">>, <<VlanParent, "ipv4.forwarding">>}}

NicHosts ==
    UNION {{[NoNicHost EXCEPT !.vlanParent = e, !.parentBy = IF e THEN "host" ELSE "",
                              !.sysctl = sy] : sy \in SysctlStates(e)} : e \in BOOLEAN}

InitNicParent ==
    /\ EngineIdle
    /\ now = 0 /\ heartbeat = [m \in Members |-> 0] /\ nt = IdleNotifier
    /\ InitProxyIdle
    /\ InitUnits
    /\ nicLock = ""
    /\ nic = [i \in Nics |-> IdleNic]
    /\ nicHost \in NicHosts
    /\ procs = [p \in Pids |-> "none"]
    /\ pidfile = [s \in Supervisors |-> 0]
    /\ kl = [s \in Supervisors |-> IdleKill]
    /\ signals = {}

NextNicParent ==
    \E i \in Nics :
        \/ \E cfg \in NicParentConfigs : NicStart(i, cfg)
        \/ NicValidate(i)
        \/ NicLock(i)
        \/ NicVlan(i)
        \/ NicVeth(i)
        \/ NicLimits(i)
        \/ NicAddresses(i)
        \/ NicReturnError(i)
        \/ NicFinish(i)
        \/ NicPostStop(i, {})

SpecNicParent == InitNicParent /\ [][NextNicParent]_vars

-----------------------------------------------------------------------------
(* Routed NICs whose postStop may fail at any of its cleanup steps.        *)

NicStopConfigs == [vlan : BOOLEAN, name : {TRUE}, host_name : {""},
                   address : {TRUE}, address6 : {FALSE}]

NextNicStop ==
    \E i \in Nics :
        \/ \E cfg \in NicStopConfigs : NicStart(i, cfg)
        \/ NicValidate(i)
        \/ NicLock(i)
        \/ NicVlan(i)
        \/ NicVeth(i)
        \/ NicLimits(i)
        \/ NicAddresses(i)
        \/ NicReturnError(i)
        \/ NicFinish(i)
        \/ \E failed \in SUBSET PostStopSteps : NicPostStop(i, failed)

SpecNicStop == InitNic /\ [][NextNicStop]_vars

-----------------------------------------------------------------------------
(* Supervised children: the proxy forwarder (proxy.go:134-198, 433-475)    *)
(* and the DNS forwarder of a network (network.go:1278-1316, 1533-1553),   *)
(* with processes that exit on their own and pids that are handed out      *)
(* again.                                                                  *)

InitKill == InitNic

KillFrame == <<netVars, heartbeat, now, nt, nicLock, nic, nicHost, proxyVars, unitVars>>

\* cmdFields[1] of the child's command line.
Command(s) == IF s = "proxy" THEN "forkproxy" ELSE "forkdns"

ChildRuns(s) == pidfile[s] # 0 /\ procs[pidfile[s]] = Command(s)

Spawn(s, p) ==
    /\ kl[s].pc = "idle"
    /\ ~ChildRuns(s)
    /\ procs[p] = "none"
    /\ procs' = [procs EXCEPT ![p] = Command(s)]
    /\ pidfile' = [pidfile EXCEPT ![s] = p]
    /\ UNCHANGED <<kl, signals, KillFrame>>

\* proxy.go:134-198: forkproxy is started and writes its pidfile.
ProxyStart(p) == pidfile["proxy"] = 0 /\ Spawn("proxy", p)

\* network.go:1278-1316: forkdns is started and its pid saved.
spawnForkDNS(p) == Spawn("forkdns", p)

\* A process ends by itself.
ProcessExits(p) ==
    /\ procs[p] # "none"
    /\ procs' = [procs EXCEPT ![p] = "none"]
    /\ UNCHANGED <<pidfile, kl, signals, KillFrame>>

\* The kernel gives a free pid to an unrelated process.
PidReused(p) ==
    /\ procs[p] = "none"
    /\ procs' = [procs EXCEPT ![p] = "other"]
    /\ UNCHANGED <<pidfile, kl, signals, KillFrame>>

KillReturn(s, ret) == kl' = [kl EXCEPT ![s] = [pc |-> "idle", pid |-> kl[s].pid, ret |-> ret]]

\* unix.Kill(pid, SIGKILL) on a live pid: the signal and what it hit.
Signal(s, pid) ==
    /\ signals' = signals \cup {[by |-> s, pid |-> pid, hit |-> procs[pid], recorded |-> Command(s)]}
    /\ procs' = [procs EXCEPT ![pid] = "none"]

\* proxy.go:241-248 and 435-439: the pidfile exists and is read.
KillProxyRead ==
    /\ kl["proxy"].pc = "idle"
    /\ pidfile["proxy"] # 0
    /\ kl' = [kl EXCEPT !["proxy"] = [pc |-> "exists", pid |-> pidfile["proxy"], ret |-> "none"]]
    /\ UNCHANGED <<procs, pidfile, signals, KillFrame>>

\* proxy.go:441-445: does /proc/<pid> exist.
KillProxyExists ==
    /\ kl["proxy"].pc = "exists"
    /\ IF procs[kl["proxy"].pid] = "none"
       THEN /\ pidfile' = [pidfile EXCEPT !["proxy"] = 0]
            /\ KillReturn("proxy", "ok")
       ELSE /\ pidfile' = pidfile
            /\ kl' = [kl EXCEPT !["proxy"].pc = "cmdline"]
    /\ UNCHANGED <<procs, signals, KillFrame>>

\* proxy.go:447-458: read /proc/<pid>/cmdline and compare cmdFields[1].
KillProxyCmdline ==
    /\ kl["proxy"].pc = "cmdline"
    /\ IF procs[kl["proxy"].pid] # "forkproxy"
       THEN /\ pidfile' = [pidfile EXCEPT !["proxy"] = 0]
            /\ KillReturn("proxy", "ok")
       ELSE /\ pidfile' = pidfile
            /\ kl' = [kl EXCEPT !["proxy"].pc = "kill"]
    /\ UNCHANGED <<procs, signals, KillFrame>>

\* proxy.go:460-474: unix.Kill(pid, SIGKILL), then remove the pidfile.
KillProxySignal ==
    /\ kl["proxy"].pc = "kill"
    /\ IF procs[kl["proxy"].pid] = "none"
       THEN /\ KillReturn("proxy", "err")
            /\ UNCHANGED <<procs, pidfile, signals>>
       ELSE /\ Signal("proxy", kl["proxy"].pid)
            /\ pidfile' = [pidfile EXCEPT !["proxy"] = 0]
            /\ KillReturn("proxy", "ok")
    /\ UNCHANGED KillFrame

\* network.go:1533-1546: the pidfile exists and is imported.
KillForkDNSImport ==
    /\ kl["forkdns"].pc = "idle"
    /\ pidfile["forkdns"] # 0
    /\ kl' = [kl EXCEPT !["forkdns"] = [pc |-> "stop", pid |-> pidfile["forkdns"], ret |-> "none"]]
    /\ UNCHANGED <<procs, pidfile, signals, KillFrame>>

\* network.go:1548-1552: Process.Stop kills the imported process when it is
\* the recorded command, and reports ErrNotRunning otherwise.
KillForkDNSStop ==
    /\ kl["forkdns"].pc = "stop"
    /\ IF procs[kl["forkdns"].pid] = "forkdns"
       THEN Signal("forkdns", kl["forkdns"].pid)
       ELSE UNCHANGED <<procs, signals>>
    /\ KillReturn("forkdns", "ok")
    /\ UNCHANGED <<pidfile, KillFrame>>

NextKill ==
    \/ \E p \in Pids : ProxyStart(p)
    \/ \E p \in Pids : spawnForkDNS(p)
    \/ \E p \in Pids : ProcessExits(p)
    \/ \E p \in Pids : PidReused(p)
    \/ KillProxyRead
    \/ KillProxyExists
    \/ KillProxyCmdline
    \/ KillProxySignal
    \/ KillForkDNSImport
    \/ KillForkDNSStop

SpecKill == InitKill /\ [][NextKill]_vars

-----------------------------------------------------------------------------
(* The proxy device, proxy.go: Start with its post-start hook (134-198),   *)
(* setupNAT (254-345) and Stop (231-252).                                  *)

ConnectHosts == {"10.0.0.5", "10.0.0.9", "0.0.0.0", "fd42::5", "::"}

ProxyConfigs == [nat : BOOLEAN, connect : ConnectHosts]

\* The orders in which a range over the expanded devices may visit them.
DeviceOrders == {<<"eth0", "eth1">>, <<"eth1", "eth0">>}

ProxyListen == "tcp:192.0.2.1:80"

\* proxy.go:270-273: strings.Contains(connectHost, ":")
IpFamily(connectHost) == IF connectHost \in {"fd42::5", "::"} THEN 6 ELSE 4

StaticAddress(dev, fam) == IF fam = 4 THEN dev.v4 ELSE dev.v6

Wildcard(fam) == IF fam = 4 THEN "0.0.0.0" ELSE "::"

NoMatch == [connectIP |-> "", hostName |-> "", dev |-> ""]

\* The loop without the test for a bridged NIC.
RECURSIVE FindConnectIPAnyNic(_, _, _)
FindConnectIPAnyNic(order, devices, connectHost) ==
    IF order = <<>> THEN NoMatch
    ELSE LET n    == Head(order)
             dev  == devices[n]
             fam  == IpFamily(connectHost)
             addr == StaticAddress(dev, fam)
         IN  IF addr # "" /\ (connectHost = addr \/ connectHost = Wildcard(fam))
             THEN [connectIP |-> addr, hostName |-> dev.host_name, dev |-> n]
             ELSE FindConnectIPAnyNic(Tail(order), devices, connectHost)

\* proxy.go:278-300: the loop over the instance's devices, in the order the
\* range visits them, up to the first match.
RECURSIVE FindConnectIP(_, _, _)
FindConnectIP(order, devices, connectHost) ==
    IF order = <<>> THEN NoMatch
    ELSE LET n    == Head(order)
             dev  == devices[n]
             fam  == IpFamily(connectHost)
             addr == StaticAddress(dev, fam)
         IN  IF dev.type # "nic" \/ dev.nictype # "bridged"
             THEN FindConnectIP(Tail(order), devices, connectHost)
             ELSE IF addr # "" /\ (connectHost = addr \/ connectHost = Wildcard(fam))
             THEN [connectIP |-> addr, hostName |-> dev.host_name, dev |-> n]
             ELSE FindConnectIP(Tail(order), devices, connectHost)

InitProxy ==
    /\ EngineIdle
    /\ now = 0 /\ heartbeat = [m \in Members |-> 0] /\ nt = IdleNotifier
    /\ nicLock = "" /\ nic = [i \in Nics |-> IdleNic] /\ nicHost = NoNicHost
    /\ procs = [p \in Pids |-> "none"] /\ pidfile = [s \in Supervisors |-> 0]
    /\ kl = [s \in Supervisors |-> IdleKill] /\ signals = {}
    /\ px = IdleProxy
    /\ InitUnits
    /\ \E devices \in [DevNames -> InstDevices] :
          pxHost = [NoProxyHost EXCEPT !.devices = devices]

ProxyFrame == <<netVars, heartbeat, now, nt, nicLock, nic, nicHost, procs, pidfile, kl,
                signals, unitVars>>

\* proxy.go:134-197: Start validates and hands back the post-start hook.
ProxyDeviceStart(cfg) ==
    /\ px.pc = "idle"
    /\ px' = [IdleProxy EXCEPT !.pc = "hook", !.cfg = cfg,
                               !.pre = [rules |-> pxHost.rules, hairpin |-> pxHost.hairpin]]
    /\ UNCHANGED <<pxHost, ProxyFrame>>

ProxyReturn(f, ret) == [f EXCEPT !.pc = IF ret = "ok" THEN "started" ELSE "failed", !.ret = ret]

\* proxy.go:143-194: the hook: setupNAT in NAT mode, else the forkproxy
\* child, which may fail to start.
ProxyPostHook ==
    /\ px.pc = "hook"
    /\ IF IsTrue(IF px.cfg.nat THEN "true" ELSE "false")
       THEN /\ px' = [px EXCEPT !.pc = "nat_find"]
            /\ pxHost' = pxHost
       ELSE \/ /\ px' = ProxyReturn(px, "err")
               /\ pxHost' = pxHost
            \/ /\ px' = ProxyReturn([px EXCEPT !.launched = TRUE], "ok")
               /\ pxHost' = [pxHost EXCEPT !.forwarder = TRUE, !.pidfile = TRUE]
    /\ UNCHANGED ProxyFrame

\* proxy.go:255-303: parse the addresses, find the connect IP among the
\* bridged NICs of the instance.
SetupNATFind(order) ==
    /\ px.pc = "nat_find"
    /\ LET m == FindConnectIP(order, pxHost.devices, px.cfg.connect)
       IN  px' = IF m.connectIP = ""
                 THEN ProxyReturn([px EXCEPT !.order = order], "err")
                 ELSE [px EXCEPT !.pc = "nat_hairpin", !.order = order, !.connectIP = m.connectIP,
                                 !.hostName = m.hostName, !.dev = m.dev]
    /\ UNCHANGED <<pxHost, ProxyFrame>>

\* proxy.go:319-335: with bridge netfilter enabled, hairpin mode on the
\* instance's bridge port.
SetupNATHairpin(netfilter) ==
    /\ px.pc = "nat_hairpin"
    /\ IF ~netfilter
       THEN /\ px' = [px EXCEPT !.pc = "nat_rule", !.netfilter = FALSE]
            /\ pxHost' = pxHost
       ELSE IF px.hostName = ""
       THEN /\ px' = ProxyReturn([px EXCEPT !.netfilter = TRUE], "err")
            /\ pxHost' = pxHost
       ELSE \/ /\ px' = ProxyReturn([px EXCEPT !.netfilter = TRUE], "err")
               /\ pxHost' = pxHost
            \/ /\ px' = [px EXCEPT !.pc = "nat_rule", !.netfilter = TRUE]
               /\ pxHost' = [pxHost EXCEPT !.hairpin = @ \cup {px.hostName}]
    /\ UNCHANGED ProxyFrame

\* proxy.go:337-344: Firewall.InstanceSetupProxyNAT with the connect address
\* rewritten to the chosen IP.
SetupNATRule ==
    /\ px.pc = "nat_rule"
    /\ \/ /\ px' = ProxyReturn(px, "err")
          /\ pxHost' = pxHost
       \/ /\ px' = ProxyReturn(px, "ok")
          /\ pxHost' = [pxHost EXCEPT !.rules = @ \cup {[listen |-> ProxyListen,
                                                         connect |-> px.connectIP]}]
    /\ UNCHANGED ProxyFrame

\* Firewall.InstanceClearProxyNAT: the device's NAT rules go.
InstanceClearProxyNAT(h) == [h EXCEPT !.rules = {}]

\* proxy.go:231-252: clear the NAT rules; if the pidfile of the forwarder
\* exists, kill the forwarder and remove the pidfile.
Stopped(h) ==
    LET h1 == InstanceClearProxyNAT(h)
    IN  IF ~h1.pidfile THEN h1 ELSE [h1 EXCEPT !.forwarder = FALSE, !.pidfile = FALSE]

\* Stop of the device, after a started or a failed Start.
ProxyDeviceStop ==
    /\ px.pc \in {"started", "failed"}
    /\ pxHost' = Stopped(pxHost)
    /\ px' = [px EXCEPT !.pc = "idle", !.last = px.pc]
    /\ UNCHANGED ProxyFrame

NextProxy ==
    \/ \E cfg \in ProxyConfigs : ProxyDeviceStart(cfg)
    \/ ProxyPostHook
    \/ \E order \in DeviceOrders : SetupNATFind(order)
    \/ \E netfilter \in BOOLEAN : SetupNATHairpin(netfilter)
    \/ SetupNATRule
    \/ ProxyDeviceStop

SpecProxy == InitProxy /\ [][NextProxy]_vars

-----------------------------------------------------------------------------
(* Network.fanAddress, network.go:1459-1504, evaluated on its own over     *)
(* underlays, overlays and host interface lists.                           *)

FanUnderlays == {[ip |-> <<192, 168, 0, 0>>, size |-> 16],
                 [ip |-> <<192, 168, 1, 0>>, size |-> 24],
                 [ip |-> <<10, 1, 0, 0>>, size |-> 16],
                 [ip |-> <<10, 0, 0, 0>>, size |-> 8]}

FanOverlays == {[ip |-> <<240, 0, 0, 0>>, size |-> 8],
                [ip |-> <<250, 5, 0, 0>>, size |-> 16],
                [ip |-> <<240, 0, 0, 0>>, size |-> 24]}

FanHostAddrs == {[dev |-> "eth0", ip |-> <<192, 168, 1, 7>>],
                 [dev |-> "eth1", ip |-> <<192, 168, 255, 254>>],
                 [dev |-> "eth2", ip |-> <<10, 1, 3, 4>>],
                 [dev |-> "eth3", ip |-> <<172, 16, 0, 1>>]}

\* Interface lists of at most two addresses.
FanIfaces == {<<>>} \cup {<<a>> : a \in FanHostAddrs}
                   \cup {<<a, b>> : a \in FanHostAddrs, b \in FanHostAddrs}

\* The engine, the cluster and the devices at rest.
InitRest ==
    /\ EngineIdle
    /\ now = 0 /\ heartbeat = [m \in Members |-> 0] /\ nt = IdleNotifier
    /\ nicLock = "" /\ nic = [i \in Nics |-> IdleNic] /\ nicHost = NoNicHost
    /\ procs = [p \in Pids |-> "none"] /\ pidfile = [s \in Supervisors |-> 0]
    /\ kl = [s \in Supervisors |-> IdleKill] /\ signals = {}
    /\ InitProxyIdle
    /\ RbacIdle

restVars == <<netVars, heartbeat, now, nt, nicLock, nic, nicHost, procs, pidfile, kl, signals,
              proxyVars, rbac>>

InitFan ==
    /\ InitRest
    /\ ForkdnsIdle /\ ValidateIdle /\ BgpIdle
    /\ \E u \in FanUnderlays, o \in FanOverlays, l \in FanIfaces :
          fan = [IdleFan EXCEPT !.underlay = u, !.overlay = o, !.ifaces = l]

\* One call of fanAddress on the inputs.
FanCompute ==
    /\ ~fan.done
    /\ fan' = [fan EXCEPT !.done = TRUE,
                          !.res = fanAddress(fan.ifaces, fan.underlay, fan.overlay)]
    /\ UNCHANGED <<restVars, fdns, val, bgp>>

NextFan == FanCompute

SpecFan == InitFan /\ [][NextFan]_vars

-----------------------------------------------------------------------------
(* Network.updateForkdnsServersFile, network.go:1557-1588, called by two   *)
(* refreshes at once while forkdns reads servers.conf.                     *)

\* The address lists a refresh may be handed.
ServerLists == {<<"10.0.0.3", "10.0.0.2">>, <<"10.0.0.4", "10.0.0.2">>}

InitForkdns == InitRest /\ FanIdle /\ ForkdnsIdle /\ ValidateIdle /\ BgpIdle

ForkdnsFrame == <<restVars, fan, val, bgp>>

\* A refresh calls updateForkdnsServersFile(addresses).
UpdateForkdnsBegin(t, addresses) ==
    /\ fdns.w[t].pc = "idle"
    /\ fdns.calls < MaxRewrites
    /\ fdns' = [fdns EXCEPT !.w[t] = [IdleWriter EXCEPT !.pc = "lock", !.addresses = addresses],
                            !.calls = @ + 1]
    /\ UNCHANGED ForkdnsFrame

\* A Lock that does not wait for the holder.
UpdateForkdnsLockNotWaiting(t) ==
    /\ fdns.w[t].pc = "lock"
    /\ fdns' = [fdns EXCEPT !.lock = t, !.w[t].pc = "create"]
    /\ UNCHANGED ForkdnsFrame

\* network.go:1559: forkdnsServersLock.Lock()
UpdateForkdnsLock(t) ==
    /\ fdns.w[t].pc = "lock"
    /\ fdns.lock = 0
    /\ fdns' = [fdns EXCEPT !.lock = t, !.w[t].pc = "create"]
    /\ UNCHANGED ForkdnsFrame

\* network.go:1566-1569: os.Create(tmpName) truncates servers.conf.tmp if it
\* exists and creates it otherwise; on an error the call returns.
UpdateForkdnsCreate(t) ==
    /\ fdns.w[t].pc = "create"
    /\ \/ fdns' = [fdns EXCEPT !.w[t].pc = "return", !.w[t].ret = "err"]
       \/ /\ fdns.tmp # 0
          /\ fdns' = [fdns EXCEPT !.inodes[fdns.tmp] = <<>>,
                                  !.w[t].pc = "write", !.w[t].tmpFile = fdns.tmp]
       \/ /\ fdns.tmp = 0
          /\ fdns' = [fdns EXCEPT !.inodes = Append(@, <<>>), !.tmp = Len(fdns.inodes) + 1,
                                  !.w[t].pc = "write", !.w[t].tmpFile = Len(fdns.inodes) + 1]
    /\ UNCHANGED ForkdnsFrame

\* network.go:1572-1579: one WriteString per address, then Close.
UpdateForkdnsWrite(t) ==
    /\ fdns.w[t].pc = "write"
    /\ LET f == fdns.w[t]
       IN  IF f.written = Len(f.addresses)
           THEN fdns' = [fdns EXCEPT !.w[t].pc = "rename"]
           ELSE \/ fdns' = [fdns EXCEPT !.w[t].pc = "return", !.w[t].ret = "err"]
                \/ fdns' = [fdns EXCEPT !.inodes[f.tmpFile] = Append(@, f.addresses[f.written + 1]),
                                        !.w[t].written = @ + 1]
    /\ UNCHANGED ForkdnsFrame

\* network.go:1581-1585: os.Rename(tmpName, permName): servers.conf names the
\* inode of servers.conf.tmp, which is no longer a name.
UpdateForkdnsRename(t) ==
    /\ fdns.w[t].pc = "rename"
    /\ \/ fdns' = [fdns EXCEPT !.w[t].pc = "return", !.w[t].ret = "err"]
       \/ /\ fdns.tmp # 0
          /\ fdns' = [fdns EXCEPT !.perm = fdns.tmp, !.tmp = 0,
                                  !.w[t].pc = "return", !.w[t].ret = "ok"]
    /\ UNCHANGED ForkdnsFrame

\* network.go:1560: the deferred Unlock, on every return.
UpdateForkdnsReturn(t) ==
    /\ fdns.w[t].pc = "return"
    /\ fdns' = [fdns EXCEPT !.lock = IF @ = t THEN 0 ELSE @, !.w[t].pc = "idle"]
    /\ UNCHANGED ForkdnsFrame

\* forkdns opens servers.conf.
ReaderOpen ==
    /\ fdns.rdOpen = 0
    /\ fdns' = [fdns EXCEPT !.rdOpen = fdns.perm]
    /\ UNCHANGED ForkdnsFrame

\* forkdns reads the file it has open and closes it.
ReaderRead ==
    /\ fdns.rdOpen # 0
    /\ fdns' = [fdns EXCEPT !.seen = @ \cup {fdns.inodes[fdns.rdOpen]}, !.rdOpen = 0]
    /\ UNCHANGED ForkdnsFrame

NextForkdns ==
    \/ \E t \in Callers :
          \/ \E addresses \in ServerLists : UpdateForkdnsBegin(t, addresses)
          \/ UpdateForkdnsLock(t)
          \/ UpdateForkdnsCreate(t)
          \/ UpdateForkdnsWrite(t)
          \/ UpdateForkdnsRename(t)
          \/ UpdateForkdnsReturn(t)
    \/ ReaderOpen
    \/ ReaderRead

SpecForkdns == InitForkdns /\ [][NextForkdns]_vars

-----------------------------------------------------------------------------
(* Network.RefreshForkdnsServerAddresses, network.go:1320-1376, called     *)
(* with heartbeats that list the members in any order, against peers that *)
(* report various addresses for the network.                               *)

\* The global IPv4 address of the network's bridge on a peer.
PeerIPv4(m) == IF m = "m2" THEN "10.0.0.2" ELSE "10.0.0.3"

Addr(family, scope, address) == [family |-> family, scope |-> scope, address |-> address]

\* state.Addresses as GetNetworkState may report them on peer m: none, an
\* IPv6 address before the IPv4 one, or a link-scope and two global IPv4
\* addresses.
AddressLists(m) ==
    {<<>>,
     <<Addr("inet6", "global", "fd42::2"), Addr("inet", "global", PeerIPv4(m))>>,
     <<Addr("inet", "link", "169.254.0.1"), Addr("inet", "global", PeerIPv4(m)),
       Addr("inet", "global", "10.0.0.9")>>}

NetworkStates == {st \in [Peers -> UNION {AddressLists(m) : m \in Peers}] :
                     \A m \in Peers : st[m] \in AddressLists(m)}

\* heartbeatData.Members: the members in some order.
HeartbeatOrders ==
    {o \in [1..3 -> Members] : \A i, j \in 1..3 : i # j => o[i] # o[j]}

\* network.go:1346-1354: the first address of family inet and scope global.
FirstGlobalIPv4(addrs) ==
    LET hits == {i \in DOMAIN addrs : addrs[i].family = "inet" /\ addrs[i].scope = "global"}
    IN  IF hits = {} THEN <<>>
        ELSE <<addrs[CHOOSE i \in hits : \A j \in hits : i <= j].address>>

\* network.go:1331-1355: the addresses collected from the members in the
\* order of the heartbeat, the local member skipped.
RECURSIVE CollectAddresses(_, _)
CollectAddresses(members, states) ==
    IF members = <<>> THEN <<>>
    ELSE (IF Head(members) = Local THEN <<>> ELSE FirstGlobalIPv4(states[Head(members)]))
         \o CollectAddresses(Tail(members), states)

\* ForkdnsServersList: the lines of servers.conf.
ForkdnsServersList(file) == file

\* The addresses of the model in the order of sort.Strings.
KnownAddresses == <<"10.0.0.2", "10.0.0.3", "10.0.0.9">>

RECURSIVE SortedFrom(_, _)
SortedFrom(k, list) ==
    IF k > Len(KnownAddresses) THEN <<>>
    ELSE SelectSeq(list, LAMBDA a : a = KnownAddresses[k]) \o SortedFrom(k + 1, list)

\* sort.Strings of a list of addresses.
SortStrings(list) == SortedFrom(1, list)

IdleRefresh ==
    [servers |-> <<>>,      \* the lines of servers.conf
     calls |-> 0,
     ret |-> "none",        \* what the last refresh returned
     members |-> <<>>,      \* the heartbeat of the last refresh
     states |-> <<>>,       \* what the peers reported to it
     failure |-> "none",    \* the collaborator that failed in it
     collected |-> <<>>,    \* the addresses it collected
     before |-> <<>>,       \* servers.conf when it began
     rewrote |-> FALSE]     \* it renamed a new servers.conf into place

InitRefresh ==
    /\ InitRest
    /\ FanIdle /\ ValidateIdle /\ BgpIdle
    /\ fdns = IdleRefresh

\* network.go:1320-1376.  failure names the collaborator that fails: a peer
\* (Connect or GetNetworkState), the read of servers.conf, or its rewrite.
RefreshForkdnsServerAddresses(members, states, failure) ==
    /\ fdns.calls < MaxRefreshes
    /\ LET addresses == CollectAddresses(members, states)
           curList   == ForkdnsServersList(fdns.servers)
           call      == [fdns EXCEPT !.calls = @ + 1, !.members = members, !.states = states,
                                     !.failure = failure, !.before = fdns.servers, !.collected = <<>>,
                                     !.rewrote = FALSE]
       IN  fdns' =
             IF failure = "peer"
             THEN [call EXCEPT !.ret = "err"]
             ELSE IF failure # "read" /\ curList = addresses
             THEN [call EXCEPT !.ret = "ok", !.collected = addresses]
             ELSE IF failure = "rewrite"
             THEN [call EXCEPT !.ret = "err", !.collected = addresses]
             ELSE [call EXCEPT !.ret = "ok", !.collected = addresses, !.rewrote = TRUE,
                               !.servers = addresses]
    /\ UNCHANGED ForkdnsFrame

NextRefresh ==
    \E members \in HeartbeatOrders, states \in NetworkStates,
       failure \in {"none", "peer", "read", "rewrite"} :
        RefreshForkdnsServerAddresses(members, states, failure)

SpecRefresh == InitRefresh /\ [][NextRefresh]_vars

-----------------------------------------------------------------------------
(* common.validate, driver_common.go:71-107, evaluated on its own over     *)
(* configs and driver rules.                                               *)

ValidateKeys == {"ipv4.address", "bridge.mtu", "user.note", "bridge.bogus"}

ValidateValues == {"", "1500", "x"}

\* map[string]string over the keys: every map from a subset of the keys.
ValidateConfigs == UNION {[D -> ValidateValues] : D \in SUBSET ValidateKeys}

\* A validator: "optional" accepts "" and a number, "required" a number only.
Validators == {"optional", "required"}

Accepts(validator, value) ==
    IF validator = "optional" THEN value \in {"", "1500"} ELSE value = "1500"

DriverRuleSets == UNION {[D -> Validators] : D \in SUBSET {"ipv4.address", "bridge.mtu", "user.note"}}

\* common.validationRules, driver_common.go:66-68: no common rule.
validationRules == <<>>

\* driver_common.go:78-80: the driver's rules override the common ones.
MergeRules(common, driver) ==
    [k \in DOMAIN common \cup DOMAIN driver |-> IF k \in DOMAIN driver THEN driver[k] ELSE common[k]]

\* A validate that runs a rule only on the keys the config holds.
validateOnlyPresentKeys(c, driverRules) ==
    LET rules   == MergeRules(validationRules, driverRules)
        bad     == {k \in DOMAIN rules \cap DOMAIN c : ~Accepts(rules[k], c[k])}
        unknown == {k \in DOMAIN c : k \notin DOMAIN rules /\ ~IsUserKey(k)}
    IN  IF bad # {} THEN [err |-> "value", keys |-> bad]
        ELSE IF unknown # {} THEN [err |-> "option", keys |-> unknown]
        ELSE [err |-> "", keys |-> {}]

\* common.validate: every rule runs on config[k], "" for an absent key; then
\* every key of the config that no rule checked and that is not a user key
\* is an error.  keys: the keys one of which the error names.
validate(c, driverRules) ==
    LET rules         == MergeRules(validationRules, driverRules)
        bad           == {k \in DOMAIN rules : ~Accepts(rules[k], Get(c, k))}
        checkedFields == DOMAIN rules
        unknown       == {k \in DOMAIN c : k \notin checkedFields /\ ~IsUserKey(k)}
    IN  IF bad # {} THEN [err |-> "value", keys |-> bad]
        ELSE IF unknown # {} THEN [err |-> "option", keys |-> unknown]
        ELSE [err |-> "", keys |-> {}]

InitValidate ==
    /\ InitRest
    /\ FanIdle /\ ForkdnsIdle /\ BgpIdle
    /\ \E c \in ValidateConfigs, r \in DriverRuleSets :
          val = [IdleValidate EXCEPT !.config = c, !.driverRules = r]

\* One call of validate on the inputs.
ValidateCompute ==
    /\ ~val.done
    /\ val' = [val EXCEPT !.done = TRUE, !.res = validate(val.config, val.driverRules)]
    /\ UNCHANGED <<restVars, fan, fdns, bgp>>

NextValidate == ValidateCompute

SpecValidate == InitValidate /\ [][NextValidate]_vars

-----------------------------------------------------------------------------
(* Network.fanAddress on two hosts of one fan network: the same underlay   *)
(* and overlay, each host with its own interfaces.                         *)

FanPairUnderlays == {[ip |-> <<192, 168, 0, 0>>, size |-> 16],
                     [ip |-> <<192, 168, 1, 0>>, size |-> 24],
                     [ip |-> <<10, 1, 0, 0>>, size |-> 16]}

FanPairAddrs == {[dev |-> "eth0", ip |-> <<192, 168, 1, 7>>],
                 [dev |-> "eth0", ip |-> <<192, 168, 1, 8>>],
                 [dev |-> "eth0", ip |-> <<192, 168, 2, 7>>],
                 [dev |-> "eth0", ip |-> <<192, 168, 255, 254>>],
                 [dev |-> "eth0", ip |-> <<10, 1, 3, 4>>],
                 [dev |-> "eth0", ip |-> <<10, 1, 4, 3>>]}

\* A host has one address, or a management address before it.
FanPairIfaces == {<<a>> : a \in FanPairAddrs}
                    \cup {<<[dev |-> "mgmt", ip |-> <<172, 16, 0, 1>>], a>> : a \in FanPairAddrs}

IdleFanRes == [ok |-> FALSE, ip |-> <<>>, size |-> 0, dev |-> "", devAddr |-> <<>>]

InitFanPair ==
    /\ InitRest
    /\ ForkdnsIdle /\ ValidateIdle /\ BgpIdle
    /\ \E u \in FanPairUnderlays, o \in FanOverlays, a \in FanPairIfaces, b \in FanPairIfaces :
          fan = [underlay |-> u, overlay |-> o, ifaces |-> <<a, b>>,
                 done |-> <<FALSE, FALSE>>, res |-> <<IdleFanRes, IdleFanRes>>]

\* The call of fanAddress host h makes when it sets the network up.
FanPairCompute(h) ==
    /\ ~fan.done[h]
    /\ fan' = [fan EXCEPT !.done[h] = TRUE,
                          !.res[h] = fanAddress(fan.ifaces[h], fan.underlay, fan.overlay)]
    /\ UNCHANGED <<restVars, fdns, val, bgp>>

NextFanPair == \E h \in {1, 2} : FanPairCompute(h)

SpecFanPair == InitFanPair /\ [][NextFanPair]_vars

-----------------------------------------------------------------------------
(* proxy.validateConfig, proxy.go:46-121, evaluated on its own over the    *)
(* configs of a proxy device. A key with the value "" is an unset key.     *)

ProxyAddrs == {"tcp:0.0.0.0:80", "tcp:0.0.0.0:80-81", "udp:0.0.0.0:53",
               "unix:/run/a.sock", "unix:@a", "sctp:0.0.0.0:80"}

\* The text before the first colon of an address.
Protocol(addr) ==
    CASE addr \in {"tcp:0.0.0.0:80", "tcp:0.0.0.0:80-81"} -> "tcp"
      [] addr = "udp:0.0.0.0:53"                          -> "udp"
      [] addr \in {"unix:/run/a.sock", "unix:@a"}         -> "unix"
      [] OTHER                                            -> "sctp"

\* ProxyParseAddr: the connection type and the number of addresses one
\* address expands to; tcp, udp and unix are the known types.
ProxyParseAddr(addr) ==
    IF Protocol(addr) \notin {"tcp", "udp", "unix"}
    THEN [ok |-> FALSE, ConnType |-> "", Addrs |-> 0]
    ELSE [ok |-> TRUE, ConnType |-> Protocol(addr),
          Addrs |-> IF addr = "tcp:0.0.0.0:80-81" THEN 2 ELSE 1]

\* shared.IsBool
IsBool(v) == v \in {"true", "false", "1", "0", "yes", "no", "on", "off"}

ProxyValidateConfigs ==
    [type : {"container", "virtual-machine"},
     listen : ProxyAddrs, connect : ProxyAddrs,
     bind : {"", "host", "guest", "instance"},
     nat : {"", "true", "false", "maybe"},
     proxy_protocol : {"", "true"},
     uid : {"", "1000"}]

\* proxy.go:47-105: the checks before the ones of NAT mode.
commonChecks(c) ==
    LET listenAddr  == ProxyParseAddr(c.listen)
        connectAddr == ProxyParseAddr(c.connect)
    IN  IF c.type # "container" THEN "ErrUnsupportedDevType"
        ELSE IF ~listenAddr.ok \/ ~connectAddr.ok THEN "Unknown connection type"
        ELSE IF c.bind \notin {"", "host", "guest", "container"} THEN "Invalid binding side given"
        ELSE IF c.nat # "" /\ ~IsBool(c.nat) THEN "Invalid value for a boolean"
        ELSE IF connectAddr.Addrs > listenAddr.Addrs
             THEN "Cannot map a single port to multiple ports"
        ELSE IF IsTrue(c.proxy_protocol) /\ (Protocol(c.connect) # "tcp" \/ IsTrue(c.nat))
             THEN "The PROXY header can only be sent to tcp servers in non-nat mode"
        ELSE IF (Protocol(c.listen) # "unix" \/ c.listen = "unix:@a") /\ c.uid # ""
             THEN "Only proxy devices for non-abstract unix sockets can carry uid, gid, or mode properties"
        ELSE ""

\* A NAT mode without checks of its own.
noNatChecks(c) == ""

\* proxy.go:108-119: the checks of NAT mode.
natChecks(c) ==
    LET listenAddr  == ProxyParseAddr(c.listen)
        connectAddr == ProxyParseAddr(c.connect)
    IN  IF ~IsTrue(c.nat) THEN ""
        ELSE IF c.bind # "" /\ c.bind # "host" THEN "Only host-bound proxies can use NAT"
        ELSE IF \/ listenAddr.ConnType = "unix" \/ connectAddr.ConnType = "unix"
                \/ listenAddr.ConnType # connectAddr.ConnType
             THEN "Proxying is not supported when using NAT"
        ELSE ""

\* proxy.validateConfig: the error it returns, "" for nil.
validateConfig(c) == IF commonChecks(c) # "" THEN commonChecks(c) ELSE natChecks(c)

InitProxyValidate ==
    /\ InitRest
    /\ FanIdle /\ ForkdnsIdle /\ BgpIdle
    /\ \E c \in ProxyValidateConfigs : val = [config |-> c, done |-> FALSE, err |-> ""]

\* One call of validateConfig on the config.
ProxyValidateCompute ==
    /\ ~val.done
    /\ val' = [val EXCEPT !.done = TRUE, !.err = validateConfig(val.config)]
    /\ UNCHANGED <<restVars, fan, fdns, bgp>>

NextProxyValidate == ProxyValidateCompute

SpecProxyValidate == InitProxyValidate /\ [][NextProxyValidate]_vars

-----------------------------------------------------------------------------
(* The RBAC status loop, part_002:436-514: StartStatusCheck starts a       *)
(* goroutine that long-polls the RBAC server, StopStatusCheck cancels the  *)
(* context its requests carry.                                             *)

\* The errors of the http client: each is a *url.Error around its cause.
UrlError(cause) == [wrapped |-> TRUE, cause |-> cause]

\* err == context.Canceled: the error is the sentinel itself.
IsCanceled(err) == ~err.wrapped /\ err.cause = "context canceled"

\* strings.HasSuffix(err.Error(), "EOF")
HasSuffixEOF(err) == err.cause = "EOF"

\* What the server or the network answers to a request that reached it.
RbacAnswers == {"EOF", "refused", "504", "500", "garbled"} \cup {"200"}

RbacRest == <<netVars, heartbeat, now, nt, nicLock, nic, nicHost, procs, pidfile, kl, signals,
              proxyVars, fan, fdns, val, bgp>>

\* part_002:437-448: the URL is parsed and the goroutine started; with an
\* apiURL that does not parse nothing is started.
StartStatusCheck(parses) ==
    /\ rbac.pc = "none"
    /\ rbac' = [rbac EXCEPT !.pc = IF parses THEN "top" ELSE "none", !.status = 0, !.query = 0]
    /\ UNCHANGED RbacRest

\* part_002:511-514
StopStatusCheck ==
    /\ ~rbac.cancelled
    /\ rbac' = [rbac EXCEPT !.cancelled = TRUE]
    /\ UNCHANGED RbacRest

\* part_002:450-464: the query is set from status.LastChange and the request
\* built; NewRequestWithContext does not look at the state of the context.
RbacPrepare ==
    /\ rbac.pc = "top"
    /\ rbac' = [rbac EXCEPT !.pc = "do",
                            !.query = IF rbac.status # 0 THEN rbac.status ELSE rbac.query]
    /\ UNCHANGED RbacRest

\* Where the loop goes with the error err of r.client.Do, part_002:467-479.
AfterDoError(err) ==
    IF IsCanceled(err) THEN "exited"
    ELSE IF HasSuffixEOF(err) THEN "top"
    ELSE "sleep"

\* part_002:466: r.client.Do with a cancelled context returns its error
\* without sending; else the request goes out and the loop waits.
RbacSend ==
    /\ rbac.pc = "do"
    /\ IF rbac.cancelled
       THEN rbac' = [rbac EXCEPT !.pc = AfterDoError(UrlError("context canceled"))]
       ELSE /\ rbac.requests < MaxRequests
            /\ rbac' = [rbac EXCEPT !.pc = "wait", !.requests = @ + 1]
    /\ UNCHANGED RbacRest

\* part_002:466-508: r.client.Do returns: cancelled while it waited, or
\* with the server's answer; a decoded answer is a change that flushes
\* the cache.
RbacReceive(answer, change) ==
    /\ rbac.pc = "wait"
    /\ IF rbac.cancelled
       THEN rbac' = [rbac EXCEPT !.pc = AfterDoError(UrlError("context canceled"))]
       ELSE rbac' =
              CASE answer \in {"EOF", "refused"} ->
                       [rbac EXCEPT !.pc = AfterDoError(UrlError(answer))]
                [] answer = "504"     -> [rbac EXCEPT !.pc = "top"]
                [] answer = "500"     -> [rbac EXCEPT !.pc = "sleep"]
                [] answer = "garbled" -> [rbac EXCEPT !.pc = "sleep"]
                [] OTHER              -> [rbac EXCEPT !.pc = "top", !.status = change,
                                                      !.lastChange = change,
                                                      !.flushes = @ + 1]
    /\ UNCHANGED RbacRest

\* time.Sleep(5 * time.Second) returns.
RbacSleep ==
    /\ rbac.pc = "sleep"
    /\ rbac' = [rbac EXCEPT !.pc = "top"]
    /\ UNCHANGED RbacRest

\* The steps of the goroutine.
RbacLoop ==
    \/ RbacPrepare
    \/ RbacSend
    \/ \E answer \in RbacAnswers, change \in 1..MaxChanges : RbacReceive(answer, change)
    \/ RbacSleep

InitRbac == InitRest /\ FanIdle /\ ForkdnsIdle /\ ValidateIdle /\ BgpIdle

NextRbac ==
    \/ \E parses \in BOOLEAN : StartStatusCheck(parses)
    \/ StopStatusCheck
    \/ RbacLoop

\* The goroutine keeps running while it has a step to take.
SpecRbac == InitRbac /\ [][NextRbac]_vars /\ WF_vars(RbacLoop)

-----------------------------------------------------------------------------
(* common.bgpValidationRules, driver_common.go:431-459, evaluated on its   *)
(* own over configs with peer keys, next hop keys and other keys.          *)

BgpRuleKeys == {"bgp.peers.p1.address", "bgp.peers.p1.asn", "bgp.peers.p1.password",
                "bgp.ipv4.nexthop", "bgp.ipv6.nexthop", "bgp.peers.p1.bogus",
                "ipv4.address"}

\* strings.Split(k, ".")
KeyFields(k) ==
    CASE k = "bgp.peers.p1.address"  -> <<"bgp", "peers", "p1", "address">>
      [] k = "bgp.peers.p1.asn"      -> <<"bgp", "peers", "p1", "asn">>
      [] k = "bgp.peers.p1.password" -> <<"bgp", "peers", "p1", "password">>
      [] k = "bgp.peers.p1.bogus"    -> <<"bgp", "peers", "p1", "bogus">>
      [] k = "bgp.ipv4.nexthop"      -> <<"bgp", "ipv4", "nexthop">>
      [] k = "bgp.ipv6.nexthop"      -> <<"bgp", "ipv6", "nexthop">>
      [] OTHER                       -> <<"ipv4", "address">>

\* strings.HasPrefix(k, "bgp.")
HasBgpPrefix(k) == Len(KeyFields(k)) > 1 /\ KeyFields(k)[1] = "bgp"

\* The values of bgp.peers.p1.asn the model tries.
AsnValues == {"", "0", "1", "65000", "4294967294", "4294967295", "-1", "abc"}

\* strconv.ParseInt(value, 10, 64) on those values: the number as its two
\* 16-bit halves, <<>> when the value is not a number.
ParseInt(value) ==
    CASE value = "0"          -> <<0, 0>>
      [] value = "1"          -> <<0, 1>>
      [] value = "65000"      -> <<0, 65000>>
      [] value = "4294967294" -> <<65535, 65534>>
      [] value = "4294967295" -> <<65535, 65535>>
      [] value = "-1"         -> <<-1, 65535>>
      [] OTHER                -> <<>>

LessEq(a, b) == a[1] < b[1] \/ (a[1] = b[1] /\ a[2] <= b[2])

\* validate.Optional(validate.IsInRange(1, 4294967294))
AsnAccepts(value) ==
    \/ value = ""
    \/ /\ ParseInt(value) # <<>>
       /\ LessEq(<<0, 1>>, ParseInt(value))
       /\ LessEq(ParseInt(value), <<65535, 65534>>)

\* The configs: any subset of the keys, bgp.peers.p1.asn with any of its values.
BgpRuleConfigs ==
    UNION {{[k \in D |-> IF k = "bgp.peers.p1.asn" THEN asn ELSE "x"] : asn \in AsnValues} :
              D \in SUBSET BgpRuleKeys}

\* driver_common.go:431-459: an error for a bgp.* key that has not four
\* fields, else a rule for every key that ends in address, asn or password.
bgpValidationRules(c) ==
    LET bgpKeys == {k \in DOMAIN c : HasBgpPrefix(k)}
        ruled   == {k \in bgpKeys : KeyFields(k)[4] \in {"address", "asn", "password"}}
    IN  IF \E k \in bgpKeys : Len(KeyFields(k)) # 4
        THEN [err |-> "Invalid network configuration key", rules |-> <<>>]
        ELSE [err |-> "", rules |-> [k \in ruled |-> KeyFields(k)[4]]]

IdleBgpRules == [config |-> <<>>, done |-> FALSE, res |-> [err |-> "", rules |-> <<>>]]

InitBgpRules ==
    /\ InitRest
    /\ FanIdle /\ ForkdnsIdle /\ BgpIdle
    /\ \E c \in BgpRuleConfigs : val = [IdleBgpRules EXCEPT !.config = c]

\* One call of bgpValidationRules on the config.
BgpRulesCompute ==
    /\ ~val.done
    /\ val' = [val EXCEPT !.done = TRUE, !.res = bgpValidationRules(val.config)]
    /\ UNCHANGED <<restVars, fan, fdns, bgp>>

NextBgpRules == BgpRulesCompute

SpecBgpRules == InitBgpRules /\ [][NextBgpRules]_vars

-----------------------------------------------------------------------------
(* common.bgpSetupPeers and bgpGetPeers, driver_common.go:519-558 and      *)
(* 641-668.  A string is the sequence of its pieces, "," being one piece.  *)

PeerNames == {"east", "west"}

\* The address a peer name may be given; "" stands for an unset key.
PeerAddress(name) == IF name = "east" THEN "10.0.0.1" ELSE "10.0.0.2"

PeerPasswords == {<<>>, <<"s", ",", "t">>}

\* The values of bgp.peers.<name>.address, .asn and .password.
PeerSettings(name) ==
    [address : {"", PeerAddress(name)}, asn : {"", "65000"}, password : PeerPasswords]

\* The configs: each peer name absent or with its three values.
BgpConfigs ==
    UNION {{c \in [D -> UNION {PeerSettings(n) : n \in PeerNames}] :
                \A n \in D : c[n] \in PeerSettings(n)} : D \in SUBSET PeerNames}

\* fmt.Sprintf("%s,%s,%s", peerAddress, peerASN, peerPassword)
PeerString(p) == <<p.address, ",", p.asn, ",">> \o p.password

\* strings.Split(s, ",")
RECURSIVE Split(_)
Split(str) ==
    IF \A i \in DOMAIN str : str[i] # "," THEN <<str>>
    ELSE LET i == CHOOSE i \in DOMAIN str : str[i] = "," /\ \A j \in 1..(i - 1) : str[j] # ","
         IN  <<SubSeq(str, 1, i - 1)>> \o Split(SubSeq(str, i + 1, Len(str)))

\* strconv.ParseUint(s, 10, 32) on the ASNs the model uses.
ParseUint(str) == IF str = <<"65000">> THEN 65000 ELSE 0

\* common.bgpGetPeers: the peer strings of the peers that have an address
\* and an ASN.
bgpGetPeers(c) ==
    {PeerString(c[n]) : n \in {m \in DOMAIN c : c[m].address # "" /\ c[m].asn # ""}}

\* The peer AddPeer is called with: net.ParseIP(fields[0]), the parsed
\* fields[1], fields[2].
AddedPeer(fields) ==
    [address |-> fields[1][1], asn |-> ParseUint(fields[2]), password |-> fields[3]]

\* driver_common.go:539-555: the peers passed to AddPeer.
AddedPeers(newPeers, oldPeers) == {AddedPeer(Split(peer)) : peer \in newPeers \ oldPeers}

\* driver_common.go:525-537: the addresses passed to RemovePeer.
RemovedPeers(newPeers, oldPeers) == {Split(peer)[1][1] : peer \in oldPeers \ newPeers}

InitBgp ==
    /\ InitRest
    /\ FanIdle /\ ForkdnsIdle /\ ValidateIdle /\ BgpIdle

\* The network's config becomes c and bgpSetupPeers(oldConfig) runs.
BgpSetupPeers(c) ==
    /\ LET newPeers == bgpGetPeers(c)
           oldPeers == bgpGetPeers(bgp.config)
           removed  == RemovedPeers(newPeers, oldPeers)
           added    == AddedPeers(newPeers, oldPeers)
       IN  bgp' = [config |-> c, oldConfig |-> bgp.config, called |-> TRUE,
                   removed |-> removed, added |-> added,
                   speaker |-> {p \in bgp.speaker : p.address \notin removed} \cup added]
    /\ UNCHANGED <<restVars, fan, fdns, val>>

NextBgp == \E c \in BgpConfigs : BgpSetupPeers(c)

SpecBgp == InitBgp /\ [][NextBgp]_vars

-----------------------------------------------------------------------------
(* common.bgpSetupPrefixes, driver_common.go:561-638, called on a speaker  *)
(* that also announces the prefixes of another network.                    *)

\* net.ParseIP on the addresses the model uses; <<>> is the nil IP.
ParseIP(s) ==
    CASE s = "192.0.2.1"   -> <<192, 0, 2, 1>>
      [] s = "192.0.2.2"   -> <<192, 0, 2, 2>>
      [] s = "0.0.0.0"     -> <<0, 0, 0, 0>>
      [] s = "2001:db8::1" -> <<"2001:db8", "1">>
      [] s = "::"          -> <<"", "">>
      [] OTHER             -> <<>>

NexthopKey(fam) == IF fam = 4 THEN "bgp.ipv4.nexthop" ELSE "bgp.ipv6.nexthop"
VolatileAddressKey(fam) ==
    IF fam = 4 THEN "volatile.network.ipv4.address" ELSE "volatile.network.ipv6.address"

\* fmt.Sprintf("network_%d", n.id)
bgpOwner == "network_1"

\* A next hop that is always the unspecified address.
NexthopUnspecified(c, fam) == ParseIP(IF fam = 4 THEN "0.0.0.0" ELSE "::")

\* driver_common.go:563-577: the next hop of a family.
Nexthop(c, fam) ==
    IF ParseIP(Get(c, NexthopKey(fam))) # <<>> THEN ParseIP(Get(c, NexthopKey(fam)))
    ELSE IF ParseIP(Get(c, VolatileAddressKey(fam))) # <<>>
    THEN ParseIP(Get(c, VolatileAddressKey(fam)))
    ELSE ParseIP(IF fam = 4 THEN "0.0.0.0" ELSE "::")

\* A choice of prefix that announces the subnet whenever no NAT address is set.
PrefixTextSubnetWithoutNatAddress(c, fam) ==
    IF IsTrue(Get(c, NatKey(fam))) /\ Get(c, NatAddressKey(fam)) # ""
    THEN Get(c, NatAddressKey(fam)) \o (IF fam = 4 THEN "/32" ELSE "/128")
    ELSE IF HasAddress(c, fam) THEN Get(c, AddrKey(fam))
    ELSE ""

\* driver_common.go:589-635: the CIDR text handed to net.ParseCIDR for a
\* family, "" when the family adds no prefix.
PrefixText(c, fam) ==
    IF IsTrue(Get(c, NatKey(fam)))
    THEN IF Get(c, NatAddressKey(fam)) # ""
         THEN Get(c, NatAddressKey(fam)) \o (IF fam = 4 THEN "/32" ELSE "/128")
         ELSE ""
    ELSE IF HasAddress(c, fam) THEN Get(c, AddrKey(fam))
    ELSE ""

\* BGP.AddPrefix(subnet, nexthop, owner)
AddPrefix(paths, subnet, nexthop, owner) ==
    paths \cup {[subnet |-> subnet, nexthop |-> nexthop, owner |-> owner]}

\* BGP.RemovePrefixByOwner(owner)
RemovePrefixByOwner(paths, owner) == {p \in paths : p.owner # owner}

\* The prefix another network announces on the same speaker.
ForeignPaths == {[subnet |-> [ip |-> <<10, 9, 0, 0>>, size |-> 16],
                  nexthop |-> <<0, 0, 0, 0>>, owner |-> "network_2"]}

\* The values of the keys bgpSetupPrefixes reads, for one family.
PrefixSettings(fam) ==
    [nat        : {"", "true"},
     natAddress : {"", IF fam = 4 THEN "192.0.2.9" ELSE "2001:db8::9"},
     address    : IF fam = 4 THEN {"", "none", "10.0.0.1/24"} ELSE {"", "fd42::1/64"},
     nexthop    : IF fam = 4 THEN {"", "192.0.2.1"} ELSE {""},
     volatile   : IF fam = 4 THEN {"", "192.0.2.2"} ELSE {"", "2001:db8::1"}]

FamilyKeys(fam) ==
    {NatKey(fam), NatAddressKey(fam), AddrKey(fam), NexthopKey(fam), VolatileAddressKey(fam)}

\* The config map with the settings s4 and s6; an empty value is an unset key.
PrefixConfig(s4, s6) ==
    LET value(k) ==
            LET fam == IF k \in FamilyKeys(4) THEN 4 ELSE 6
                s   == IF fam = 4 THEN s4 ELSE s6
            IN  CASE k = NatKey(fam)             -> s.nat
                  [] k = NatAddressKey(fam)      -> s.natAddress
                  [] k = AddrKey(fam)            -> s.address
                  [] k = NexthopKey(fam)         -> s.nexthop
                  [] k = VolatileAddressKey(fam) -> s.volatile
        keys == {k \in FamilyKeys(4) \cup FamilyKeys(6) : value(k) # ""}
    IN  [k \in keys |-> value(k)]

\* IPv4: every choice of NAT, NAT address and address without a next hop
\* key, and every choice of next hop keys for a plain and a NAT network.
PrefixSettings4 ==
    {s \in PrefixSettings(4) :
        \/ s.nexthop = "" /\ s.volatile = ""
        \/ s.address = "10.0.0.1/24" /\ (s.nat = "true" <=> s.natAddress # "")}

\* IPv6 is off, has an address and a volatile address, or has an address
\* behind a NAT address.
PrefixSettings6 ==
    {s \in PrefixSettings(6) :
        \/ s.address = "" /\ s.nat = "" /\ s.natAddress = "" /\ s.volatile = ""
        \/ s.address # "" /\ s.nat = "" /\ s.natAddress = "" /\ s.volatile # ""
        \/ s.address # "" /\ s.nat = "true" /\ s.natAddress # "" /\ s.volatile = ""}

PrefixConfigs == {PrefixConfig(s4, s6) : s4 \in PrefixSettings4, s6 \in PrefixSettings6}

\* The speaker before the first call, a config, no call made.
IdlePrefixes == [config |-> <<>>, paths |-> ForeignPaths, calls |-> 0, ret |-> "none",
                 nilOld |-> FALSE,   \* the last call's oldConfig was nil
                 before |-> {}]      \* the speaker's paths when the last call began

InitPrefixes ==
    /\ InitRest
    /\ FanIdle /\ ForkdnsIdle /\ ValidateIdle
    /\ \E c \in PrefixConfigs : bgp = [IdlePrefixes EXCEPT !.config = c]

\* The paths after the family's block of bgpSetupPrefixes.
AddFamily(paths, c, fam) ==
    IF PrefixText(c, fam) = "" THEN paths
    ELSE AddPrefix(paths, SubnetOf(ParseCIDR(PrefixText(c, fam))), Nexthop(c, fam), bgpOwner)

\* The network's config becomes c and bgpSetupPrefixes(oldConfig) runs, with
\* oldConfig nil (Start) or the config the network had (Update).  The speaker
\* may fail in RemovePrefixByOwner or in either AddPrefix.
BgpSetupPrefixes(c, nilOld, failAt) ==
    /\ bgp.calls < MaxSetups
    /\ LET p0 == bgp.paths
           p1 == IF nilOld THEN p0 ELSE RemovePrefixByOwner(p0, bgpOwner)
           p2 == AddFamily(p1, c, 4)
           p3 == AddFamily(p2, c, 6)
           r  == CASE failAt = "remove" -> [paths |-> p0, ret |-> "err"]
                   [] failAt = "add4"   -> [paths |-> p1, ret |-> "err"]
                   [] failAt = "add6"   -> [paths |-> p2, ret |-> "err"]
                   [] OTHER             -> [paths |-> p3, ret |-> "ok"]
       IN  /\ failAt = "remove" => ~nilOld
           /\ failAt = "add4" => PrefixText(c, 4) # ""
           /\ failAt = "add6" => PrefixText(c, 6) # ""
           /\ bgp' = [config |-> c, paths |-> r.paths, calls |-> bgp.calls + 1,
                      ret |-> r.ret, nilOld |-> nilOld, before |-> p0]
    /\ UNCHANGED <<restVars, fan, fdns, val>>

NextPrefixes ==
    \E c \in PrefixConfigs, nilOld \in BOOLEAN, failAt \in {"", "remove", "add4", "add6"} :
        BgpSetupPrefixes(c, nilOld, failAt)

SpecPrefixes == InitPrefixes /\ [][NextPrefixes]_vars

-----------------------------------------------------------------------------
(* Start and Stop of one network on its own, over the configs that choose  *)
(* the MTU, the tunnels, the fan and the firewall, on hosts whose underlay *)
(* device has a standard, a jumbo or an unreadable MTU and on which the    *)
(* other managed network is named lxdbr1 or lxdbr0-b.                      *)

CfgMtu == [k \in {"ipv4.address", "bridge.mtu"} |->
             IF k = "ipv4.address" THEN "10.0.0.1/24" ELSE "9000"]

CfgTunnel == [k \in {"ipv4.address", "tunnel.t1.protocol"} |->
                IF k = "ipv4.address" THEN "10.0.0.1/24" ELSE "gre"]

CfgFanIpip == [k \in DOMAIN CfgFan \cup {"fan.type"} |->
                 IF k = "fan.type" THEN "ipip" ELSE CfgFan[k]]

CfgFanMtu == [k \in DOMAIN CfgFan \cup {"bridge.mtu"} |->
                IF k = "bridge.mtu" THEN "9000" ELSE CfgFan[k]]

CfgFanTunnel == [k \in DOMAIN CfgFan \cup {"tunnel.t1.protocol"} |->
                   IF k = "tunnel.t1.protocol" THEN "gre" ELSE CfgFan[k]]

CfgFanNoNat == [k \in DOMAIN CfgFan \cup {"ipv4.nat"} |->
                  IF k = "ipv4.nat" THEN "false" ELSE CfgFan[k]]

CfgRanges == [k \in {"ipv4.address", "ipv4.dhcp.ranges"} |->
                IF k = "ipv4.address" THEN "10.0.0.1/24"
                ELSE "10.0.0.10-10.0.0.20, 10.0.0.30-10.0.0.40"]

CfgNoDhcp == [k \in {"ipv4.address", "ipv4.dhcp", "ipv4.dhcp.ranges"} |->
                CASE k = "ipv4.address" -> "10.0.0.1/24"
                  [] k = "ipv4.dhcp" -> "false"
                  [] OTHER -> "10.0.0.10-10.0.0.20"]

CfgStateful == [k \in {"ipv4.address", "ipv6.address", "ipv6.dhcp.stateful"} |->
                  CASE k = "ipv4.address" -> "10.0.0.1/24"
                    [] k = "ipv6.address" -> "fd42::1/64"
                    [] OTHER -> "true"]

CfgStatefulRanges == [k \in DOMAIN CfgStateful \cup {"ipv6.dhcp.ranges", "ipv4.dhcp.ranges"} |->
                        CASE k = "ipv6.dhcp.ranges" -> "fd42::10-fd42::20"
                          [] k = "ipv4.dhcp.ranges" -> "10.0.0.10-10.0.0.20"
                          [] OTHER -> CfgStateful[k]]

SetupConfigs == {CfgNat, CfgPlain, CfgV6, CfgMtu, CfgTunnel,
                 CfgFan, CfgFanIpip, CfgFanMtu, CfgFanTunnel, CfgFanNoNat,
                 CfgRanges, CfgNoDhcp, CfgStateful, CfgStatefulRanges}

\* What GetDevMTU may read for the underlay device; 0 stands for its error.
DevMTUs == {0, DevMTU, 9000}

\* The interfaces of the other managed network: its bridge and its MTU dummy.
OtherInterfaces == {{OtherNetwork}, {"lxdbr0-b", "lxdbr0-b-mtu"}}

InitSetup ==
    /\ config \in SetupConfigs
    /\ description = ""
    /\ db = Record(config, description)
    /\ \E m \in DevMTUs, o \in OtherInterfaces :
          /\ m # DevMTU => IsFan(config)
          /\ host = [EmptyHost EXCEPT !.devMtu = m, !.others = o]
    /\ extConfigured = {} /\ mockMode = FALSE
    /\ th = [t \in Callers |-> IdleFrame]
    /\ faults = 0 /\ ops = 0 /\ rt = NoHistory
    /\ now = MaxTime /\ heartbeat = AllAlive /\ nt = IdleNotifier
    /\ InitDevices

\* Start, and Stop as Delete(false) runs it.
NextSetup ==
    \E t \in {1} :
        \/ Start(t)
        \/ StartReturn(t)
        \/ SetupStep(t)
        \/ StopStep(t)
        \/ DeleteBegin(t, FALSE)
        \/ DeleteStore(t)

SpecSetup == InitSetup /\ [][NextSetup]_vars

-----------------------------------------------------------------------------
(* Properties of the engine.                                               *)

\* The kernel and firewall state two runs are compared on: bridge driver,
\* addresses, routes, firewall rules, attached interfaces, child processes.
KernelView(h) ==
    [bridge |-> h.bridge, addrs |-> h.addrs, tunl0 |-> h.tunl0, rules |-> h.rules,
     ports |-> h.ports, children |-> h.children]

Returned(t, op, ret) == th[t].pc = "idle" /\ th[t].op = op /\ th[t].ret = ret

\* C1: when Update, called on a network whose store record agrees with its
\* memory, returns an error, the in-memory config and description and the
\* store record are those the call found, and the kernel and firewall state
\* is the one setup had produced for that config.
C1_UpdateErrorRestores ==
    \A t \in Callers :
        (Returned(t, "Update", "err") /\ th[t].pre.stored) =>
            /\ config = th[t].pre.config
            /\ description = th[t].pre.description
            /\ db = Record(th[t].pre.config, th[t].pre.description)
            /\ th[t].pre.settled => KernelView(host) = KernelView(th[t].pre.host)

\* C2: no payload handed to UpdateNetwork on a peer by an update that is not
\* itself a notification contains a node-specific key.
C2_PayloadWithoutNodeSpecificKeys ==
    \A t \in Callers : \A payload \in th[t].sent :
        DOMAIN payload \cap NodeSpecificNetworkConfig = {}

\* An update that is not a cluster notification and names no target member.
Originating(t) ==
    /\ th[t].op \in {"Update", "CommonUpdate"}
    /\ ~th[t].notify
    /\ th[t].targetNode = ""

AllAcked(t) == th[t].notifierBuilt /\ th[t].acked = Peers

AckedFirst(t) ==
    /\ th[t].wroteNew => AllAcked(t)
    /\ th[t].ranSetup => AllAcked(t)
    /\ (th[t].pc = "idle" /\ th[t].ret = "ok") => AllAcked(t)

\* The request differs from what the network holds.
Changes(t) ==
    \/ th[t].newNetwork.Config # th[t].pre.config
    \/ th[t].newNetwork.Description # th[t].pre.description

C9_SetupIdempotent ==
    \A t \in Callers :
        (th[t].op = "Start" /\ th[t].pre.settled) =>
            /\ ~th[t].flushed
            /\ Returned(t, "Start", "ok") =>
                  /\ KernelView(host) = KernelView(th[t].pre.host)
                  /\ \A r \in BagToSet(host.rules) : CopiesIn(r, host.rules) <= 1

\* C10: after setup(A), a successful Update(B) and a successful Update(A)
\* the kernel and firewall state is the one setup(A) left.
C10_RoundTrip == rt.phase = 3 => KernelView(host) = KernelView(rt.snap)


-----------------------------------------------------------------------------
(* Properties of the notifier.                                             *)

\* The error matches "peer node .+ is down".
PeerDownError(e) ==
    Len(e) = 3 /\ e[1] = "peer node " /\ e[2] \in Members /\ e[3] = " is down"

\* C4: under policy all NewNotifier returns the error "peer node .. is down"
\* and no notifier exactly when some peer's last heartbeat is at least the
\* offline threshold old; with every peer alive it returns a notifier and no
\* error.
C4_AllRefusesIffPeerDown ==
    nt.policy = "all" =>
        /\ (~nt.built /\ PeerDownError(nt.err)) <=> nt.down # {}
        /\ nt.down = {} => (nt.built /\ nt.err = <<>>)

\* Policy all refused because a peer was down while another was alive.
C4_Witness ==
    /\ nt.policy = "all" /\ ~nt.built /\ PeerDownError(nt.err)
    /\ nt.down # {} /\ nt.down # Peers

\* C5: under policy alive NewNotifier always returns a notifier; a notifier
\* runs the hook at most once per member, never on the local member, never
\* on a peer that was down, and when it returns it has run it once on every
\* peer that was alive.
C5_HookOncePerAlivePeer ==
    /\ nt.policy = "alive" => nt.built
    /\ nt.built =>
          /\ \A m \in Members : CopiesIn(m, nt.calls) <= 1
          /\ ~BagIn(Local, nt.calls)
          /\ \A m \in nt.down : ~BagIn(m, nt.calls)
          /\ nt.done => BagToSet(nt.calls) = Peers \ nt.down

\* A notifier of policy alive finished with one peer down and one called.
C5_Witness ==
    /\ nt.policy = "alive" /\ nt.built /\ nt.done
    /\ nt.down # {} /\ BagToSet(nt.calls) # {}

-----------------------------------------------------------------------------
(* Properties of concurrent callers, routed NICs and supervised children.  *)

\* The caller has changed the kernel or the config and has not returned.
Reconciling(t) ==
    th[t].pc \in {"s_link", "s_ext", "s_clear4", "s_fw4", "s_ip4", "s_clear6", "s_ip6",
                  "s_fan", "s_tunnels", "s_dns", "stop_clean", "start_ret",
                  "u_notify", "u_store", "u_setup", "u_setup_ret", "u_return"}

\* C6: no two callers are inside setup, Update or Delete of the network at
\* the same time.
C6_OneReconciliationAtATime ==
    \A t1, t2 \in Callers : (Reconciling(t1) /\ Reconciling(t2)) => t1 = t2

LockedPcs == {"vlan", "veth", "limits", "addrs", "finish", "fail"}

\* C7: a routed NIC Start holds networkCreateSharedDeviceLock from the end
\* of its environment validation until it returns, on the error returns
\* too, so no two Starts are in VLAN-parent creation or neighbour-proxy
\* setup together and a returned Start does not hold the lock.
C7_LockHeldAfterValidation ==
    /\ \A i \in Nics : nic[i].pc \in LockedPcs <=> nicLock = i
    /\ \A i, j \in Nics : (nic[i].pc \in LockedPcs /\ nic[j].pc \in LockedPcs) => i = j

\* C7 as stated: the lock is held from the entry of Start, the environment
\* validation included.
C7_LockHeldFromEntry ==
    \A i \in Nics : nic[i].pc \notin {"idle", "started"} <=> nicLock = i

\* One Start failed under the lock and returned; another holds the lock.
C7_Witness ==
    \E i, j \in Nics :
        /\ i # j
        /\ nic[i].pc = "idle" /\ nic[i].ret = "err" /\ nic[i].failedAt \in LockedPcs
        /\ nic[j].pc = "addrs" /\ nicLock = j

\* C8: every SIGKILL a supervisor sends hits a process whose command line is
\* the recorded command at that moment.
C8_SignalsHitRecordedCommand ==
    \A sg \in signals : sg.hit = sg.recorded


-----------------------------------------------------------------------------
(* Properties of a successful setup.                                       *)

\* The kernel effects of a fan network: the fan address on the bridge, the
\* tunnel attached (or the ipip route), the overlay NAT rule when NAT is not
\* switched off, and a running dnsmasq.
FanConfigured(c, h) ==
    /\ \E a \in h.addrs : a.fam = 4
    /\ "lxdbr0-fan" \in h.ports \/ h.tunl0 # {}
    /\ (Get(c, "ipv4.nat") = "" \/ IsTrue(Get(c, "ipv4.nat"))) =>
          \E r \in BagToSet(h.rules) : r.kind = "tunnel-nat"
    /\ \E ch \in BagToSet(h.children) : ch.kind = "dnsmasq"

\* C11: when setup returns success outside mock mode on a network with
\* bridge.mode=fan, the fan address is assigned, the tunnel is attached, the
\* overlay NAT rule is installed and dnsmasq runs, whatever
\* fan.underlay_subnet holds.
C11_SuccessfulSetupConfiguresFan ==
    \A t \in Callers :
        (Returned(t, "Start", "ok") /\ ~mockMode /\ IsFan(config)) =>
            FanConfigured(config, host)



-----------------------------------------------------------------------------
(* Properties of a routed NIC's Start and postStop.                        *)

\* Nothing of NIC i is left on the host or in its volatile keys.
NothingLeft(i) ==
    /\ \A v \in nicHost.veths : v.owner # i
    /\ \A a \in nicHost.addrs : a.owner # i
    /\ i \notin nicHost.neigh
    /\ i \notin nicHost.rpf
    /\ nic[i].created => (~nicHost.vlanParent \/ ParentInUse(i))
    /\ nicHost.volatile[i] = NoVolatile

\* C12: when Start has failed under the lock and returned, the hostside
\* interface, the VLAN parent it created, its neighbour proxy entries and
\* its reverse path filter rules are gone and no volatile key is stored.
C12_FailedStartUndone ==
    \A i \in Nics :
        (nic[i].pc = "idle" /\ nic[i].ret = "err" /\ nic[i].failedAt \in LockedPcs) =>
            NothingLeft(i)

\* C13: while a NIC is started, its volatile host_name is not empty, is the
\* pinned host_name or the generated name, names an existing hostside
\* interface this Start created, and the gateway address and host route of
\* the NIC are on that interface.
C13_HostNameNamesInterface ==
    \A i \in Nics :
        nic[i].pc = "started" =>
            LET name == nicHost.volatile[i].host_name
            IN  /\ name # ""
                /\ name = HostName(i)
                /\ [name |-> name, owner |-> i] \in nicHost.veths
                /\ nic[i].cfg.address =>
                      \A k \in {"gateway", "route"} :
                          [dev |-> name, owner |-> i, kind |-> k] \in nicHost.addrs

\* Two NICs are started, one under a pinned and one under a generated name,
\* both with an address.
C13_Witness ==
    \E i, j \in Nics :
        /\ nic[i].pc = "started" /\ nic[j].pc = "started"
        /\ nic[i].cfg.host_name = "" /\ nic[j].cfg.host_name # ""
        /\ nic[i].cfg.address /\ nic[j].cfg.address



-----------------------------------------------------------------------------
(* Properties of the proxy device.                                         *)

\* The static addresses of family fam on the bridged NICs of the instance.
BridgedStatic(fam) ==
    {StaticAddress(pxHost.devices[n], fam) : n \in
        {d \in DevNames : /\ pxHost.devices[d].type = "nic"
                          /\ pxHost.devices[d].nictype = "bridged"
                          /\ StaticAddress(pxHost.devices[d], fam) # ""}}

\* The first device of the order that is a bridged NIC with a static address
\* of the family, "" if there is none.
RECURSIVE FirstBridgedStatic(_, _)
FirstBridgedStatic(order, fam) ==
    IF order = <<>> THEN ""
    ELSE IF /\ pxHost.devices[Head(order)].type = "nic"
            /\ pxHost.devices[Head(order)].nictype = "bridged"
            /\ StaticAddress(pxHost.devices[Head(order)], fam) # ""
         THEN Head(order)
         ELSE FirstBridgedStatic(Tail(order), fam)

\* C14: every proxy NAT rule points to a static address of a bridged NIC of
\* the instance; a NAT-mode Start whose connect host is neither such an
\* address nor the wildcard of its family fails; a failed setupNAT leaves no
\* rule; with the wildcard the NIC chosen is the first bridged NIC with a
\* static address of the family in the order the devices are visited.
C14_NatOnlyToStaticAddress ==
    LET fam == IpFamily(px.cfg.connect)
    IN  /\ \A r \in pxHost.rules : r.connect \in BridgedStatic(4) \cup BridgedStatic(6)
        /\ (px.cfg.nat /\ px.pc \in {"nat_hairpin", "nat_rule", "started"}) =>
              /\ px.connectIP \in BridgedStatic(fam)
              /\ px.cfg.connect \in BridgedStatic(fam) \cup {Wildcard(fam)}
              /\ px.cfg.connect # Wildcard(fam) => px.connectIP = px.cfg.connect
              /\ px.cfg.connect = Wildcard(fam) => px.dev = FirstBridgedStatic(px.order, fam)
        /\ (px.cfg.nat /\ px.pc = "failed") => pxHost.rules = {}

\* The wildcard picked the first of two bridged NICs with different static
\* addresses and the rule is installed.
C14_Witness ==
    /\ px.cfg.nat /\ px.pc = "started" /\ px.cfg.connect = "0.0.0.0"
    /\ px.order = <<"eth1", "eth0">> /\ px.dev = "eth1"
    /\ BridgedStatic(4) = {"10.0.0.5", "10.0.0.6"}
    /\ pxHost.rules # {}

\* C15: a started NAT-mode proxy has launched no forwarder, has its NAT rule
\* and, with bridge netfilter enabled, hairpin mode on the instance's
\* bridge port; after the following Stop the NAT rules and the hairpin
\* settings are those found by Start.
C15_NatStartStopRoundTrip ==
    /\ (px.cfg.nat /\ px.pc = "started") =>
          /\ ~px.launched /\ ~pxHost.forwarder
          /\ [listen |-> ProxyListen, connect |-> px.connectIP] \in pxHost.rules
          /\ px.netfilter => px.hostName \in pxHost.hairpin
    /\ (px.cfg.nat /\ px.pc = "idle" /\ px.last = "started") =>
          /\ pxHost.rules = px.pre.rules
          /\ pxHost.hairpin = px.pre.hairpin



-----------------------------------------------------------------------------
(* Properties of the fan address.                                          *)

\* The pair is one fanAddress accepts.
FanAccepted(u, o) ==
    u.size \in {16, 24} /\ o.size \in {8, 16} /\ o.size + (32 - u.size) + 8 <= 32

\* C16: for an accepted underlay/overlay pair and a host with an address
\* inside the underlay, fanAddress succeeds with an address inside the
\* overlay whose last octet is 1, carrying the overlay's prefix length.
C16_FanAddressInsideOverlay ==
    (fan.done /\ FanAccepted(fan.underlay, fan.overlay)
              /\ \E k \in DOMAIN fan.ifaces : Contains(fan.underlay, fan.ifaces[k].ip)) =>
        /\ fan.res.ok
        /\ Contains(fan.overlay, fan.res.ip)
        /\ fan.res.ip[4] = 1
        /\ fan.res.size = fan.overlay.size
        /\ Contains(fan.underlay, fan.res.devAddr)

\* A /16 underlay with a /8 overlay, the host address being the second of
\* the list.
C16_Witness ==
    /\ fan.done /\ fan.res.ok
    /\ fan.underlay.size = 16 /\ fan.overlay.size = 8
    /\ Len(fan.ifaces) = 2 /\ fan.res.devAddr = fan.ifaces[2].ip
    /\ fan.res.devAddr # fan.ifaces[1].ip

\* C17: with a /8 overlay the fan address is the overlay's first octet, then
\* for a /16 underlay the third and fourth octets of the host address, for a
\* /24 underlay its fourth octet and 0, then 1: the host 192.168.1.7 in
\* 192.168.1.0/24 under 240.0.0.0/8 gets 240.7.0.1/8.
C17_FanAddressOctets ==
    (fan.done /\ fan.res.ok /\ fan.overlay.size = 8) =>
        LET a == fan.res.devAddr
        IN  /\ fan.underlay.size = 16 => fan.res.ip = <<fan.overlay.ip[1], a[3], a[4], 1>>
            /\ fan.underlay.size = 24 => fan.res.ip = <<fan.overlay.ip[1], a[4], 0, 1>>
            /\ (fan.underlay.ip = <<192, 168, 1, 0>> /\ a = <<192, 168, 1, 7>>
                   /\ fan.overlay.ip = <<240, 0, 0, 0>>) =>
                  (fan.res.ip = <<240, 7, 0, 1>> /\ fan.res.size = 8)

\* C17 as stated: with a /8 overlay the address is always the overlay's
\* first octet, the third and fourth octets of the host address, then 1.
C17_ThirdAndFourthOctets ==
    (fan.done /\ fan.res.ok /\ fan.overlay.size = 8) =>
        fan.res.ip = <<fan.overlay.ip[1], fan.res.devAddr[3], fan.res.devAddr[4], 1>>

\* The example: 192.168.1.7 in 192.168.1.0/24 under 240.0.0.0/8.
C17_Witness ==
    /\ fan.done /\ fan.res.ok
    /\ fan.underlay = [ip |-> <<192, 168, 1, 0>>, size |-> 24]
    /\ fan.overlay = [ip |-> <<240, 0, 0, 0>>, size |-> 8]
    /\ fan.res.devAddr = <<192, 168, 1, 7>>



-----------------------------------------------------------------------------
(* Properties of the forkdns servers file.                                 *)

\* The lists servers.conf may hold: the first one or one a refresh was handed.
WholeLists == {FirstServers} \cup ServerLists

\* C18: servers.conf always holds a whole list and the reader never reads
\* anything else; a call creates, writes and renames servers.conf.tmp only
\* while it holds forkdnsServersLock, which one call holds at a time, and a
\* returned call does not hold it.
C18_ServersFileReplacedAtomically ==
    /\ fdns.inodes[fdns.perm] \in WholeLists
    /\ fdns.seen \subseteq WholeLists
    /\ \A t \in Callers :
          fdns.w[t].pc \in {"create", "write", "rename", "return"} <=> fdns.lock = t

\* The reader has read two different lists, one call waits for the lock
\* and the other has written a part of its list.
C18_Witness ==
    /\ Cardinality(fdns.seen) >= 2
    /\ \E t, u \in Callers :
          /\ fdns.w[t].pc = "lock"
          /\ fdns.w[u].pc = "write" /\ fdns.w[u].written = 1
          /\ fdns.w[t].addresses # fdns.w[u].addresses



-----------------------------------------------------------------------------
(* Properties of config validation.                                        *)

\* C19: validate returns an error exactly when a rule rejects the value of
\* its key, an absent key counting as "", or the config holds a key that
\* has no rule and is not a user key; a user key without a rule never makes
\* it fail.
C19_ValidateFailsIffRejectedOrUnknown ==
    val.done =>
        LET c        == val.config
            rules    == val.driverRules
            rejected == \E k \in DOMAIN rules :
                            ~Accepts(rules[k], IF k \in DOMAIN c THEN c[k] ELSE "")
            unknown  == \E k \in DOMAIN c : k \notin DOMAIN rules /\ k # "user.note"
        IN  /\ val.res.err # "" <=> (rejected \/ unknown)
            /\ val.res.err = "value" => rejected
            /\ (val.res.err = "option" /\ ~rejected) => unknown

\* A config with a user key of arbitrary value and no rule for it, and a
\* rule whose key is absent and accepts "", passed.
C19_Witness ==
    /\ val.done /\ val.res.err = ""
    /\ "user.note" \in DOMAIN val.config /\ val.config["user.note"] = "x"
    /\ "user.note" \notin DOMAIN val.driverRules
    /\ \E k \in DOMAIN val.driverRules : k \notin DOMAIN val.config



-----------------------------------------------------------------------------
(* Properties of the BGP peers.                                            *)

\* The peers of a config as (address, asn, password) triples; a peer without
\* an address or an ASN is none.
Triples(c) ==
    {[address |-> c[n].address, asn |-> ParseUint(<<c[n].asn>>), password |-> c[n].password] :
        n \in {m \in DOMAIN c : c[m].address # "" /\ c[m].asn # ""}}

\* C20: a bgpSetupPeers call removes from the speaker exactly the peers of
\* the old config that are not peers of the new one and adds exactly the
\* peers of the new config that are not peers of the old one, compared as
\* (address, asn, password) triples, so the speaker holds the new config's
\* peers afterwards.
C20_BgpPeersDiffApplied ==
    bgp.called =>
        /\ bgp.removed = {p.address : p \in Triples(bgp.oldConfig) \ Triples(bgp.config)}
        /\ bgp.added = Triples(bgp.config) \ Triples(bgp.oldConfig)
        /\ bgp.speaker = Triples(bgp.config)



-----------------------------------------------------------------------------
(* Properties of the BGP prefixes.                                         *)

OwnPaths(paths) == {p \in paths : p.owner = bgpOwner}

\* The host prefix of the family's NAT address.
HostPrefix(c, fam) ==
    [ip |-> ParseCIDR(Get(c, NatAddressKey(fam)) \o (IF fam = 4 THEN "/32" ELSE "/128")).ip,
     size |-> IF fam = 4 THEN 32 ELSE 128]

\* The subnets the config announces for a family.
AnnouncedSubnets(c, fam) ==
    IF IsTrue(Get(c, NatKey(fam)))
    THEN (IF Get(c, NatAddressKey(fam)) # "" THEN {HostPrefix(c, fam)} ELSE {})
    ELSE IF Get(c, AddrKey(fam)) \in {"", "none"} THEN {}
    ELSE {SubnetOf(ParseCIDR(Get(c, AddrKey(fam))))}

\* The next hop the config gives a family.
AnnouncedNexthop(c, fam) ==
    IF Get(c, NexthopKey(fam)) # "" THEN ParseIP(Get(c, NexthopKey(fam)))
    ELSE IF Get(c, VolatileAddressKey(fam)) # "" THEN ParseIP(Get(c, VolatileAddressKey(fam)))
    ELSE IF fam = 4 THEN <<0, 0, 0, 0>> ELSE <<"", "">>

AnnouncedPaths(c) ==
    UNION {{[subnet |-> s, nexthop |-> AnnouncedNexthop(c, fam), owner |-> bgpOwner] :
                s \in AnnouncedSubnets(c, fam)} : fam \in {4, 6}}

-----------------------------------------------------------------------------
(* Properties of Start and Stop on their own.                              *)

\* The MTU by precedence: explicit, tunnel present, fan type, default.
MtuByPrecedence(c, devMtu) ==
    IF Get(c, "bridge.mtu") # "" THEN Get(c, "bridge.mtu")
    ELSE IF \E k \in DOMAIN c : IsTunnelKey(k) THEN "1400"
    ELSE IF Get(c, "bridge.mode") = "fan"
    THEN (IF Get(c, "fan.type") = "ipip"
          THEN (IF devMtu # 0 THEN MtuString(devMtu - 20) ELSE "1480")
          ELSE (IF devMtu # 0 THEN MtuString(devMtu - 50) ELSE "1450"))
    ELSE "1500"

\* C22: when setup finishes with success, the MTU of the bridge is the
\* explicit bridge.mtu, else 1400 with a tunnel, else the fan value, else
\* 1500.
C22_MtuByPrecedence ==
    \A t \in Callers :
        Returned(t, "Start", "ok") => host.mtu = MtuByPrecedence(config, host.devMtu)


\* The arguments of the dnsmasq child the pidfile names.
ResolverArgs == host.pidfiles["dnsmasq.pid"].args.cmd

\* The start and end of the DHCP ranges of a family among the arguments.
RangesGiven(cmd, fam) ==
    {<<e.val[2], e.val[3]>> :
        e \in {a \in cmd : a.opt = "dhcp-range" /\ a.val[1] = fam /\ a.val[6] = "range"}}

RangesConfigured(c, fam) ==
    LET v == Get(c, IF fam = 4 THEN "ipv4.dhcp.ranges" ELSE "ipv6.dhcp.ranges")
    IN  {<<r.start, r.end>> : r \in Range(RangeList(v))}

\* The range from the second address of the subnet of the configured address
\* to its last address but one (IPv4, a /24) or its last address (IPv6).
DefaultRange(c, fam) ==
    LET S == SubnetOf(ParseCIDR(Get(c, AddrKey(fam))))
    IN  IF fam = 4 THEN <<[S.ip EXCEPT ![4] = 2], [S.ip EXCEPT ![4] = 254]>>
        ELSE <<<<S.ip[1], 2>>, <<S.ip[1], -1>>>>

\* DHCPv4 is enabled on a configured subnet; stateful DHCPv6 is.
ServesRanges(c, fam) ==
    /\ HasAddress(c, fam)
    /\ Get(c, DhcpKey(fam)) \in {"", "true"}
    /\ fam = 6 => Get(c, "ipv6.dhcp.stateful") = "true"

\* C23: the resolver a successful Start launched is given, for a family that
\* serves DHCP ranges, the range [S+2, S-2] (IPv4) or [S+2, S-1] (IPv6) of
\* the configured subnet S when ipvN.dhcp.ranges is empty, and exactly the
\* configured ranges when it is not.
C23_DhcpRangesGiven ==
    \A t \in Callers : \A fam \in {4, 6} :
        (Returned(t, "Start", "ok") /\ ServesRanges(config, fam)) =>
            RangesGiven(ResolverArgs, fam) =
                IF RangesConfigured(config, fam) = {} THEN {DefaultRange(config, fam)}
                ELSE RangesConfigured(config, fam)

\* A Start returned success on a network with two configured IPv4 ranges,
\* and the resolver was given these two.
C23_Witness ==
    /\ Returned(1, "Start", "ok")
    /\ config = CfgRanges
    /\ Cardinality(RangesGiven(ResolverArgs, 4)) = 2


-----------------------------------------------------------------------------
(* Properties of updates received as cluster notifications.                *)

\* The call is an update applied as a cluster notification.
Notification(t) == th[t].op \in {"Update", "CommonUpdate"} /\ th[t].notify

\* C24: an update applied as a cluster notification never builds a notifier
\* and hands no payload to UpdateNetwork on any member; an update hands at
\* most one payload to the peers.
C24_NotificationSendsNothing ==
    \A t \in Callers :
        /\ Notification(t) => ~th[t].notifierBuilt /\ th[t].sent = {} /\ th[t].acked = {}
        /\ Cardinality(th[t].sent) <= 1

\* An Update received as a notification changed the config, ran setup and
\* returned success having sent nothing.
C24_Witness ==
    \E t \in Callers :
        /\ Returned(t, "Update", "ok") /\ th[t].notify
        /\ Changes(t) /\ th[t].ranSetup
        /\ ~th[t].notifierBuilt /\ th[t].sent = {}


-----------------------------------------------------------------------------
(* Properties of Delete.                                                   *)

\* C25: the store record is erased only by a Delete with withDatabase, after
\* its Stop, if one was needed, succeeded and the bridge is gone; a Delete
\* whose Stop fails returns the error and leaves the record, and a Delete
\* without withDatabase leaves it.
C25_DeleteStopsThenErases ==
    \A t \in Callers :
        th[t].op = "Delete" =>
            /\ ~db.exists => th[t].withDatabase /\ ~th[t].stopErr /\ ~IsRunning(host)
            /\ th[t].stopErr => (th[t].pc = "idle" => th[t].ret = "err")
            /\ (th[t].stopErr \/ ~th[t].withDatabase) => db = th[t].pre.db

\* A Delete with withDatabase found the network running, stopped it, erased
\* the record and returned success.
C25_Witness ==
    \E t \in Callers :
        /\ Returned(t, "Delete", "ok") /\ th[t].withDatabase
        /\ IsRunning(th[t].pre.host) /\ ~IsRunning(host)
        /\ ~db.exists


-----------------------------------------------------------------------------
(* Properties of Update.                                                   *)

\* The pcs of an Update outside setup and Stop.
UpdatePcs == {"idle", "u_stop_ret", "u_apply", "u_notify", "u_store", "u_setup",
              "u_setup_ret", "u_defer", "u_return"}

\* C26: an Update whose config and description are those the network has
\* sends nothing to the peers, does not write the store, does not run setup
\* and leaves the kernel, firewall and child-process state alone.
C26_UnchangedUpdateDoesNothing ==
    \A t \in Callers :
        (th[t].op = "Update" /\ ~Changes(t)) =>
            /\ th[t].sent = {} /\ ~th[t].notifierBuilt
            /\ ~th[t].wroteStore /\ db = th[t].pre.db
            /\ th[t].pc \in UpdatePcs
            /\ host = th[t].pre.host


\* C27: an Update received as a cluster notification never writes the store.
C27_NotificationLeavesStore ==
    \A t \in Callers :
        (th[t].op = "Update" /\ th[t].notify) => ~th[t].wroteStore /\ db = th[t].pre.db


-----------------------------------------------------------------------------
(* Properties of the firewall calls of setup.                              *)

\* C28: in a setup run no firewall setup call is made for a family and table
\* that the run has not cleared with NetworkClear before.
C28_ClearBeforeSetup == \A t \in Callers : th[t].uncleared = {}


-----------------------------------------------------------------------------
(* Properties of Stop.                                                     *)

\* What the network owns on the host: its bridge, its tunnel and dummy
\* interfaces, its firewall rules of every table and its children.
NothingOwnedRemains(h) ==
    /\ ~IsRunning(h)
    /\ h.devs = {}
    /\ h.rules = EmptyBag
    /\ h.children = EmptyBag

\* A Stop of a running network that has just returned success to Delete.
StopSucceeded(t) ==
    /\ th[t].op = "Delete"
    /\ th[t].pc = "d_store"
    /\ ~th[t].stopErr
    /\ IsRunning(th[t].pre.host)

\* C29: after Stop returns success nothing the network owns remains on the
\* host: no bridge, no tunnel or dummy interface, no firewall rule of the
\* network in any table of either family, no resolver or forkdns child.
C29_StopLeavesNothing ==
    \A t \in Callers : StopSucceeded(t) => NothingOwnedRemains(host)


-----------------------------------------------------------------------------
(* Properties of the interfaces of other networks.                         *)

\* C30: setup and Stop of the network delete no interface of a different
\* managed network: the interfaces the other network had when the call
\* began are there at every step of the call.
C30_OtherInterfacesKept ==
    \A t \in Callers :
        th[t].op \in {"Start", "Delete"} => th[t].pre.host.others \subseteq host.others


-----------------------------------------------------------------------------
(* Properties of the children of the network.                              *)

\* The running children of one kind, each counted as often as it runs.
Running(h, kind) ==
    LET ofKind == {c \in BagToSet(h.children) : c.kind = kind}
    IN  BagCardinality([c \in ofKind |-> h.children[c]])

AtMostOneChildOfEachKind(h) == \A kind \in {"dnsmasq", "forkdns"} : Running(h, kind) <= 1

\* A pidfile that exists names a child that is running.
PidfilesNameRunningChild(h) ==
    \A file \in DOMAIN h.pidfiles : BagIn(h.pidfiles[file], h.children)

\* A setup that returned success without starting a resolver.
SetupStartedNoResolver(t) ==
    /\ th[t].pc \in {"start_ret", "u_setup_ret"}
    /\ ~th[t].setupErr
    /\ ~WantsDnsmasq(config)

\* C31: at every point between the steps of setup, Update and Stop at most
\* one dnsmasq and one forkdns child of the network runs, dnsmasq.pid and
\* forkdns.pid name a running child when they exist, and a setup that starts
\* no resolver leaves no dnsmasq.pid.
C31_OneChildNamedByPidfile ==
    /\ AtMostOneChildOfEachKind(host)
    /\ PidfilesNameRunningChild(host)
    /\ \A t \in Callers : SetupStartedNoResolver(t) => "dnsmasq.pid" \notin DOMAIN host.pidfiles


-----------------------------------------------------------------------------
(* Properties of an Update that changes user keys only.                    *)

\* An Update that changes something, and among the keys only user.* ones.
UserOnlyUpdate(t) == th[t].op = "Update" /\ Changes(t) /\ th[t].userOnly

\* C32: an Update that changes only user.* keys or the description never
\* enters setup or Stop and leaves the kernel, firewall and child-process
\* state as it found it; when it has returned success the memory holds the
\* new config and description and, unless it was a notification, every peer
\* was sent them and the store holds them.
C32_UserOnlyUpdateLeavesHost ==
    \A t \in Callers :
        UserOnlyUpdate(t) =>
            /\ th[t].pc \in UpdatePcs
            /\ host = th[t].pre.host
            /\ Returned(t, "Update", "ok") =>
                  /\ config = th[t].newNetwork.Config
                  /\ description = th[t].newNetwork.Description
                  /\ ~th[t].notify =>
                        /\ AllAcked(t) /\ th[t].sent = {th[t].newNetwork.Config}
                        /\ db = Record(config, description)


-----------------------------------------------------------------------------
(* Properties of the parent of a routed NIC.                               *)

\* The step is the return of a failed Start of NIC i or its postStop.
Undoes(i) == nic[i].pc \in {"fail", "started"} /\ nic'[i].pc = "idle"

\* C33: the VLAN parent is removed only by the failed Start or the postStop
\* of the NIC whose Start created it, at postStop with last_state.created
\* stored as true, and the sysctls of the VLAN parent are written only by the
\* Start that creates it in the same step.
C33_OnlyCreatedParentTouched ==
    [][/\ (nicHost.vlanParent /\ ~nicHost'.vlanParent) =>
             \E i \in Nics :
                 /\ Undoes(i)
                 /\ nicHost.parentBy = i
                 /\ nic[i].pc = "started" => nicHost.volatile[i].created
       /\ (nicHost'.sysctlsBy # nicHost.sysctlsBy /\ nicHost'.sysctlsBy # {}) =>
             \E i \in Nics :
                 /\ nic[i].pc = "vlan"
                 /\ ~nicHost.vlanParent
                 /\ nicHost'.parentBy = i
                 /\ nicHost'.sysctlsBy = {i}
       /\ nicHost.sysctl \subseteq nicHost'.sysctl \cup ParentSysctls(VlanParent)]_vars

\* A NIC is started over a VLAN parent that was there before its Start and
\* wrote none of its sysctls, after the other NIC was stopped with the
\* parent left in place.
C33_Witness ==
    \E i, j \in Nics :
        /\ i # j
        /\ nic[i].pc = "started" /\ nic[i].cfg.vlan /\ ~nicHost.volatile[i].created
        /\ nicHost.vlanParent /\ nicHost.parentBy = "host" /\ nicHost.sysctlsBy = {}
        /\ nic[j].pc = "idle" /\ nic[j].stop = "ok"


-----------------------------------------------------------------------------
(* Properties of postStop of a routed NIC.                                 *)

-----------------------------------------------------------------------------
(* Properties of the environment check of a routed NIC.                    *)

\* The sysctls the config needs that exist when Start is entered: those of
\* a VLAN interface that Start has yet to create do not.
ExistingRequired(h, cfg) ==
    IF cfg.vlan /\ ~h.vlanParent
    THEN {sc \in RequiredSysctls(cfg) : sc[1] = "all"}
    ELSE RequiredSysctls(cfg)

\* C35: a Start whose config needs a sysctl that is not 1 (IPv4 forwarding
\* of the parent with IPv4 addresses; IPv6 forwarding and proxy_ndp of all
\* interfaces and of the parent with IPv6 addresses) returns an error from
\* its environment check and changes nothing on the host.
C35_StartFailsWithoutSysctls ==
    [][\A i \in Nics :
          (/\ nic[i].pc = "validate"
           /\ nic'[i].pc # "validate"
           /\ ~(ExistingRequired(nicHost, nic[i].cfg) \subseteq nicHost.sysctl)) =>
              /\ nic'[i].pc = "idle" /\ nic'[i].ret = "err"
              /\ nicHost' = nicHost]_vars


-----------------------------------------------------------------------------
(* Properties of the refresh of the forkdns servers.                       *)

\* The peers that reported a global IPv4 address to the last refresh.
PeersWithIPv4 == {m \in Peers : FirstGlobalIPv4(fdns.states[m]) # <<>>}

\* C36: a refresh in which nothing failed has returned success, has collected the first global IPv4
\* address of every peer that reported one and nothing of the local member,
\* and has rewritten servers.conf exactly when the sorted list of what it
\* collected differs from the list the file held.
C36_RewriteIffSortedDiffers ==
    (fdns.calls > 0 /\ fdns.failure = "none") =>
        /\ fdns.ret = "ok"
        /\ Range(fdns.collected) = {PeerIPv4(m) : m \in PeersWithIPv4}
        /\ Len(fdns.collected) = Cardinality(PeersWithIPv4)
        /\ fdns.rewrote <=> SortStrings(fdns.collected) # fdns.before


-----------------------------------------------------------------------------
(* Properties of the validation rules of the BGP keys.                     *)

\* The bgp.* keys the network reads.
RecognizedBgpKeys == {"bgp.peers.p1.address", "bgp.peers.p1.asn", "bgp.peers.p1.password",
                      "bgp.ipv4.nexthop", "bgp.ipv6.nexthop"}

BgpKeysOf(c) == {k \in DOMAIN c : HasBgpPrefix(k)}

\* C37: for a config whose bgp.* keys are all recognized ones,
\* bgpValidationRules returns no error and a validator for each of them,
\* the one of an asn key accepting the empty value and 1 to 4294967294 only.
C37_RecognizedBgpKeysAccepted ==
    (val.done /\ BgpKeysOf(val.config) \subseteq RecognizedBgpKeys) =>
        /\ val.res.err = ""
        /\ DOMAIN val.res.rules = BgpKeysOf(val.config)
        /\ "bgp.peers.p1.asn" \in DOMAIN val.config =>
              /\ val.res.rules["bgp.peers.p1.asn"] = "asn"
              /\ AsnAccepts(val.config["bgp.peers.p1.asn"])
                    <=> val.config["bgp.peers.p1.asn"] \in {"", "1", "65000", "4294967294"}


-----------------------------------------------------------------------------
(* Properties of the fan addresses of two hosts.                           *)

\* Both hosts have computed a fan address, from different underlay addresses.
BothFanAddresses ==
    /\ fan.done[1] /\ fan.done[2]
    /\ fan.res[1].ok /\ fan.res[2].ok
    /\ fan.res[1].devAddr # fan.res[2].devAddr

\* C38: under one accepted underlay and overlay, two hosts whose addresses
\* in the underlay differ get fan addresses that differ in the first three
\* octets, that is different overlay /24 subnets.
C38_DistinctOverlaySubnets ==
    BothFanAddresses => SubSeq(fan.res[1].ip, 1, 3) # SubSeq(fan.res[2].ip, 1, 3)

\* Two hosts of a /16 underlay whose addresses share the fourth octet have
\* both been given their fan addresses, which differ in the second octet.
C38_Witness ==
    /\ BothFanAddresses
    /\ fan.underlay.size = 16
    /\ fan.res[1].devAddr[4] = fan.res[2].devAddr[4]
    /\ fan.res[1].ip[2] # fan.res[2].ip[2]


-----------------------------------------------------------------------------
(* Properties of the validation of a proxy device.                         *)

\* The config asks for NAT in a way NAT mode does not support.
UnsupportedNat(c) ==
    /\ c.nat = "true"
    /\ \/ c.bind \notin {"", "host"}
       \/ Protocol(c.listen) = "unix" \/ Protocol(c.connect) = "unix"
       \/ Protocol(c.listen) # Protocol(c.connect)

\* C39: validateConfig rejects every config with nat = true whose bind is
\* neither empty nor host, whose listen or connect protocol is unix or whose
\* two protocols differ, and accepts proxy_protocol = true only with a tcp
\* connect address and NAT not enabled.
C39_NatAndProxyProtocolChecked ==
    val.done =>
        /\ UnsupportedNat(val.config) => val.err # ""
        /\ (val.err = "" /\ val.config.proxy_protocol = "true") =>
              (Protocol(val.config.connect) = "tcp" /\ val.config.nat # "true")

\* A config that passes every other check is rejected by the NAT checks
\* for proxying tcp to udp.
C39_Witness ==
    /\ val.done
    /\ val.config.nat = "true" /\ val.config.bind = "host"
    /\ Protocol(val.config.listen) = "tcp" /\ Protocol(val.config.connect) = "udp"
    /\ val.err = "Proxying is not supported when using NAT"


-----------------------------------------------------------------------------
(* Properties of the RBAC status loop.                                     *)

\* The loop has been started and the context cancelled.
StoppedLoop == rbac.pc # "none" /\ rbac.cancelled

\* No request reaches the RBAC server once the context is cancelled.
NoRequestAfterStop == [][rbac.cancelled => rbac'.requests = rbac.requests]_vars

\* C40: once StopStatusCheck has been called the status loop eventually
\* terminates, and it sends no further request to the RBAC server.
C40_LoopTerminatesAfterStop ==
    /\ StoppedLoop ~> (rbac.pc = "exited")
    /\ NoRequestAfterStop

====
